---- MODULE Spec2Model ----
(***************************************************************************)
(* Verification model of the receipt pipeline (pcrochet/ocr-receipts-mgr). *)
(*                                                                         *)
(* Part 1 - Job Coordinator: ops/services/jobrun.py (job_context) and the  *)
(*          run bookkeeping of ocr/services/gmail.py (collect_from_gmail). *)
(* Part 2 - Intake: directory scanners and the mailbox collector writing   *)
(*          into the Document registry.                                    *)
(* Part 3 - Stages: text extraction, brand identification, admin actions. *)
(***************************************************************************)
EXTENDS Integers, Sequences, FiniteSets, Bags, TLC

(***************************************************************************)
(* PART 1 - JOB COORDINATOR                                                *)
(***************************************************************************)

\* The two operating-system processes (each with its own database session)
\* that invoke jobs concurrently.
Procs == {1, 2}

\* Upper bound on the number of invocations started in one behaviour.
MaxInv == 2

\* Job names handed to job_context by the callers in this repository.
JobNames == {"ingest_from_dir", "collect_from_dir"}

\* Messages carried by the exceptions the stage logic may raise.
Msgs == {"boom"}

\* Who triggers an invocation: a management command (the process and its
\* database session end with the invocation) or an admin view served by a
\* long-lived worker whose connection is kept (CONN_MAX_AGE).
Triggers == {"cli", "admin"}

VARIABLES
    pc,        \* pc[p]: position of process p inside its invocation
    inv,       \* inv[p]: locals of the invocation in progress
    pgLock,    \* pgLock[j]: session-level advisory lock of job name j
    lockFile,  \* 0 when collect_from_gmail.lock is absent, else the pid written
    runs,      \* the job_runs table, in insertion order
    outcome,   \* outcome[p]: what the invoker of p's last invocation observed
    nInv       \* number of invocations started so far

jobVars == <<pc, inv, pgLock, lockFile, runs, outcome, nInv>>

NoInv == [entry |-> "none", trigger |-> "cli", job |-> "ingest_from_dir",
          use_lock |-> FALSE, acquired |-> FALSE, run |-> 0,
          exc |-> "none", pending |-> "none", status |-> "running"]

NoOutcome == [kind |-> "none", exc |-> "none", bodyExc |-> "none", run |-> 0,
              setup |-> FALSE]

FreeLock == [holder |-> 0, count |-> 0]

\* JobRun.Status
StatusChoices == {"running", "success", "failed", "skipped"}

\* JobRun.objects.create(job_name=..., status=...): error_message defaults to
\* "", finished_at to NULL.  owner and use_lock are not columns: they record
\* which process inserted the row and whether its invocation asked for the lock.
NewRun(job, status, p, ul) ==
    [job |-> job, status |-> status, error_message |-> "",
     finished |-> FALSE, owner |-> p, use_lock |-> ul]

\* pg_try_advisory_lock(key) in session p: granted when the key is free or
\* already held by the same session (session-level locks are re-entrant).
PgTryLock(l, p) == l.holder = 0 \/ l.holder = p

PgLockGranted(l, p) == [holder |-> p, count |-> l.count + 1]

\* pg_advisory_unlock(key) in session p: one level of the lock is given back.
PgUnlock(l, p) ==
    IF l.holder = p /\ l.count > 0
    THEN IF l.count = 1 THEN FreeLock ELSE [holder |-> p, count |-> l.count - 1]
    ELSE l

\* The session of p ends (process exit or connection closed): every advisory
\* lock of the session is released by the server.
SessionClosed(locks, p) ==
    [j \in JobNames |-> IF locks[j].holder = p THEN FreeLock ELSE locks[j]]

\* except Exception branch of job_context: failed, message, finished_at.
JcOnException(r, msg) ==
    [r EXCEPT !.status = "failed", !.error_message = msg, !.finished = TRUE]

\* else branch of job_context: success, finished_at.
JcOnSuccess(r) ==
    [r EXCEPT !.status = "success", !.finished = TRUE]

\* Skipped branch of job_context: after the yield the generator returns (or
\* the body's exception passes through it); the row is not written again.
\* (a faulty variant: the skipped row is completed like a running one)
JcOnSkippedExitMutant(r) == [r EXCEPT !.status = "success", !.finished = TRUE]
JcOnSkippedExit(r) == r

\* finally branch of collect_from_gmail: the local variable status is saved
\* together with finished_at (update_fields has no error_message).
GmOnFinally(r, status) ==
    [r EXCEPT !.status = status, !.finished = TRUE]

\* The invocation of p is over: the invoker observes a return, or the pending
\* exception.  bodyExc remembers what the stage logic itself had raised.
Finish(p) ==
    /\ pc' = [pc EXCEPT ![p] = "idle"]
    /\ outcome' = [outcome EXCEPT ![p] =
            [kind |-> IF inv[p].pending = "none" THEN "returned" ELSE "raised",
             exc |-> inv[p].pending, bodyExc |-> inv[p].exc,
             run |-> inv[p].run, setup |-> FALSE]]
    /\ inv' = [inv EXCEPT ![p] = NoInv]

JobInit ==
    /\ pc = [p \in Procs |-> "idle"]
    /\ inv = [p \in Procs |-> NoInv]
    /\ pgLock = [j \in JobNames |-> FreeLock]
    /\ lockFile = 0
    /\ runs = <<>>
    /\ outcome = [p \in Procs |-> NoOutcome]
    /\ nInv = 0

(* ---- job_context (ops/services/jobrun.py) ------------------------------ *)

\* A caller enters job_context(job_name, use_lock=...) or collect_from_gmail().
Start(p) ==
    /\ pc[p] = "idle"
    /\ nInv < MaxInv
    /\ nInv' = nInv + 1
    /\ \E entry \in {"job_context", "gmail"}, t \in Triggers, j \in JobNames,
          ul \in BOOLEAN :
          /\ entry = "gmail" => (j = "ingest_from_dir" /\ ul = FALSE)
          \* a management command is a fresh process with a fresh session
          /\ t = "cli" => \A k \in JobNames : pgLock[k].holder # p
          /\ inv' = [inv EXCEPT ![p] =
                [NoInv EXCEPT !.entry = entry, !.trigger = t, !.job = j,
                              !.use_lock = ul]]
          /\ pc' = [pc EXCEPT ![p] =
                IF entry = "gmail" THEN "gm_check" ELSE "jc_lock"]
    /\ outcome' = [outcome EXCEPT ![p] = NoOutcome]
    /\ UNCHANGED <<pgLock, lockFile, runs>>

\* lock_key = _advisory_key(job_name) if use_lock else None;
\* acquired = _pg_try_lock(lock_key)
JcTryLock(p) ==
    /\ pc[p] = "jc_lock"
    /\ IF ~inv[p].use_lock
       THEN /\ pc' = [pc EXCEPT ![p] = "jc_log"]
            /\ UNCHANGED <<inv, pgLock>>
       ELSE IF PgTryLock(pgLock[inv[p].job], p)
       THEN /\ pgLock' = [pgLock EXCEPT ![inv[p].job] = PgLockGranted(@, p)]
            /\ inv' = [inv EXCEPT ![p].acquired = TRUE]
            /\ pc' = [pc EXCEPT ![p] = "jc_log"]
       ELSE /\ pc' = [pc EXCEPT ![p] = "jc_skip_create"]
            /\ UNCHANGED <<inv, pgLock>>
    /\ UNCHANGED <<lockFile, runs, outcome, nInv>>

\* not acquired: JobRun.objects.create(status=SKIPPED); yield
JcSkipCreate(p) ==
    /\ pc[p] = "jc_skip_create"
    /\ runs' = Append(runs, NewRun(inv[p].job, "skipped", p, inv[p].use_lock))
    /\ inv' = [inv EXCEPT ![p].run = Len(runs) + 1]
    /\ pc' = [pc EXCEPT ![p] = "jc_skip_body"]
    /\ UNCHANGED <<pgLock, lockFile, outcome, nInv>>

\* The caller's body runs inside the skipped context, then "return": the body
\* returns, raises an Exception or is interrupted (KeyboardInterrupt,
\* SystemExit); whatever it raises passes through the generator.
JcSkipBody(p) ==
    /\ pc[p] = "jc_skip_body"
    /\ \E e \in {"none", "interrupt"} \cup Msgs :
          /\ runs' = [runs EXCEPT ![inv[p].run] = JcOnSkippedExit(@)]
          /\ pc' = [pc EXCEPT ![p] = "idle"]
          /\ outcome' = [outcome EXCEPT ![p] =
                [kind |-> IF e = "none" THEN "returned" ELSE "raised",
                 exc |-> e, bodyExc |-> e, run |-> inv[p].run, setup |-> FALSE]]
          /\ inv' = [inv EXCEPT ![p] = NoInv]
    /\ UNCHANGED <<pgLock, lockFile, nInv>>

\* The invocation ends by an exception raised outside the try statement of
\* job_context (lines 109-131): nothing of job_context runs any more.  The
\* session of a management command ends with its process; the connection of
\* an admin worker stays open.
SetupFailed(p) ==
    /\ pc' = [pc EXCEPT ![p] = "idle"]
    /\ outcome' = [outcome EXCEPT ![p] =
            [kind |-> "raised", exc |-> "setup", bodyExc |-> "none",
             run |-> 0, setup |-> TRUE]]
    /\ pgLock' = IF inv[p].trigger = "cli" THEN SessionClosed(pgLock, p)
                 ELSE pgLock
    /\ inv' = [inv EXCEPT ![p] = NoInv]

\* fh = logging.FileHandler(log_path): opens the log file, or raises OSError.
JcSetupLog(p) ==
    /\ pc[p] = "jc_log"
    /\ \/ /\ pc' = [pc EXCEPT ![p] = "jc_create"]
          /\ UNCHANGED <<inv, pgLock, outcome>>
       \/ SetupFailed(p)
    /\ UNCHANGED <<lockFile, runs, nInv>>

\* run = JobRun.objects.create(status=RUNNING): inserts the row, or raises
\* (database error, params that are not JSON-serialisable).
JcCreateRun(p) ==
    /\ pc[p] = "jc_create"
    /\ \/ /\ runs' = Append(runs, NewRun(inv[p].job, "running", p, inv[p].use_lock))
          /\ inv' = [inv EXCEPT ![p].run = Len(runs) + 1]
          /\ pc' = [pc EXCEPT ![p] = "jc_body"]
          /\ UNCHANGED <<pgLock, outcome>>
       \/ /\ SetupFailed(p)
          /\ UNCHANGED runs
    /\ UNCHANGED <<lockFile, nInv>>

\* try: yield ctx -- the caller's body returns, raises an Exception, or is
\* interrupted by a BaseException that "except Exception" does not catch.
JcBody(p) ==
    /\ pc[p] = "jc_body"
    /\ \E e \in {"none", "interrupt"} \cup Msgs :
          /\ inv' = [inv EXCEPT ![p].exc = e, ![p].pending = e]
          /\ pc' = [pc EXCEPT ![p] =
                CASE e = "none" -> "jc_else"
                  [] e = "interrupt" -> "jc_finally"
                  [] OTHER -> "jc_except"]
    /\ UNCHANGED <<pgLock, lockFile, runs, outcome, nInv>>

\* except Exception as e: status FAILED, error_message, finished_at; raise
JcExcept(p) ==
    /\ pc[p] = "jc_except"
    /\ runs' = [runs EXCEPT ![inv[p].run] = JcOnException(@, inv[p].exc)]
    /\ pc' = [pc EXCEPT ![p] = "jc_finally"]
    /\ UNCHANGED <<inv, pgLock, lockFile, outcome, nInv>>

\* else: status SUCCESS, finished_at
JcElse(p) ==
    /\ pc[p] = "jc_else"
    /\ runs' = [runs EXCEPT ![inv[p].run] = JcOnSuccess(@)]
    /\ pc' = [pc EXCEPT ![p] = "jc_finally"]
    /\ UNCHANGED <<inv, pgLock, lockFile, outcome, nInv>>

\* finally: remove the log handler; if acquired: _pg_unlock(lock_key).  The
\* pending exception, if any, then reaches the invoker.
JcFinally(p) ==
    /\ pc[p] = "jc_finally"
    /\ pgLock' =
          LET l == IF inv[p].acquired
                   THEN [pgLock EXCEPT ![inv[p].job] = PgUnlock(@, p)]
                   ELSE pgLock
          IN IF inv[p].trigger = "cli" THEN SessionClosed(l, p) ELSE l
    /\ Finish(p)
    /\ UNCHANGED <<lockFile, runs, nInv>>

\* The kept connection of an admin worker is closed (CONN_MAX_AGE expired)
\* while the worker runs no invocation.
SessionExpire(p) ==
    /\ pc[p] = "idle"
    /\ \E j \in JobNames : pgLock[j].holder = p
    /\ pgLock' = SessionClosed(pgLock, p)
    /\ UNCHANGED <<pc, inv, lockFile, runs, outcome, nInv>>

(* ---- collect_from_gmail (ocr/services/gmail.py): run bookkeeping -------- *)

\* _acquire_lock, first half: if lockfile.exists(): return False
GmCheckLock(p) ==
    /\ pc[p] = "gm_check"
    /\ pc' = [pc EXCEPT ![p] = IF lockFile # 0 THEN "gm_skip_create" ELSE "gm_write"]
    /\ UNCHANGED <<inv, pgLock, lockFile, runs, outcome, nInv>>

\* _acquire_lock, second half: lockfile.write_text(pid) -> True; any
\* exception while writing -> False.
GmWriteLock(p) ==
    /\ pc[p] = "gm_write"
    /\ \/ /\ lockFile' = p
          /\ inv' = [inv EXCEPT ![p].acquired = TRUE]
          /\ pc' = [pc EXCEPT ![p] = "gm_create"]
       \/ /\ pc' = [pc EXCEPT ![p] = "gm_skip_create"]
          /\ UNCHANGED <<inv, lockFile>>
    /\ UNCHANGED <<pgLock, runs, outcome, nInv>>

\* if not _acquire_lock(): JobRun.objects.create(status=SKIPPED); return
GmSkipCreate(p) ==
    /\ pc[p] = "gm_skip_create"
    /\ runs' = Append(runs, NewRun("collect_from_gmail", "skipped", p, FALSE))
    /\ pc' = [pc EXCEPT ![p] = "idle"]
    /\ outcome' = [outcome EXCEPT ![p] =
            [kind |-> "returned", exc |-> "none", bodyExc |-> "none",
             run |-> Len(runs) + 1, setup |-> FALSE]]
    /\ inv' = [inv EXCEPT ![p] = NoInv]
    /\ UNCHANGED <<pgLock, lockFile, nInv>>

\* jr = JobRun.objects.create(status=RUNNING); status = RUNNING.  The insert
\* is outside the try statement: if it raises, the finally block never runs.
GmCreateRun(p) ==
    /\ pc[p] = "gm_create"
    /\ \/ /\ runs' = Append(runs, NewRun("collect_from_gmail", "running", p, FALSE))
          /\ inv' = [inv EXCEPT ![p].run = Len(runs) + 1, ![p].status = "running"]
          /\ pc' = [pc EXCEPT ![p] = "gm_body"]
          /\ UNCHANGED <<pgLock, outcome>>
       \/ /\ SetupFailed(p)
          /\ UNCHANGED runs
    /\ UNCHANGED <<lockFile, nInv>>

\* The try block (lines 362-591).  It ends in one of four ways:
\*   - it completes with errors_count = 0: status = SUCCESS;
\*   - it completes with errors_count > 0: status = FAILED;
\*   - an Exception is raised: except Exception sets status = FAILED and does
\*     not re-raise;
\*   - a BaseException is raised: status keeps its initial value RUNNING and
\*     the exception stays pending.
GmBody(p) ==
    /\ pc[p] = "gm_body"
    /\ \E e \in {"none", "item_errors", "interrupt"} \cup Msgs :
          inv' = [inv EXCEPT
                    ![p].exc = IF e = "item_errors" THEN "none" ELSE e,
                    ![p].pending = IF e = "interrupt" THEN e ELSE "none",
                    ![p].status = CASE e = "none" -> "success"
                                    [] e = "interrupt" -> "running"
                                    [] OTHER -> "failed"]
    /\ pc' = [pc EXCEPT ![p] = "gm_finally"]
    /\ UNCHANGED <<pgLock, lockFile, runs, outcome, nInv>>

\* finally: jr.status = status; jr.finished_at = now; jr.save(...);
\* _release_lock() unlinks the lock file if it exists.
GmFinally(p) ==
    /\ pc[p] = "gm_finally"
    /\ runs' = [runs EXCEPT ![inv[p].run] = GmOnFinally(@, inv[p].status)]
    /\ lockFile' = 0
    /\ Finish(p)
    /\ UNCHANGED <<pgLock, nInv>>

(* ---- Job Coordinator: properties --------------------------------------- *)

RunIds == 1..Len(runs)

\* The invocation that inserted run i has not ended yet.
InProgress(i) == \E p \in Procs : pc[p] # "idle" /\ inv[p].run = i

\* Two invocations that are both in progress under the lock of one job name
\* never both have a running row (the advisory lock itself is exclusive).
LiveRunsExclusive ==
    \A i, k \in RunIds :
        (i # k /\ runs[i].job = runs[k].job /\ runs[i].use_lock /\ runs[k].use_lock
           /\ InProgress(i) /\ InProgress(k))
        => ~(runs[i].status = "running" /\ runs[k].status = "running")

\* C1: for two invocations of job_context with the same job name and
\* use_lock = true, made by different processes, there is never a state in
\* which the JobRun rows of both have status running.
C1_NeverBothRunning ==
    \A i, k \in RunIds :
        (i # k /\ runs[i].job = runs[k].job /\ runs[i].job \in JobNames
           /\ runs[i].use_lock /\ runs[k].use_lock
           /\ runs[i].owner # runs[k].owner)
        => ~(runs[i].status = "running" /\ runs[k].status = "running")

\* C4: every JobRun whose invocation has ended has a terminal status; a row
\* with status running belongs to an invocation still in progress.
C4_TerminalAfterExit ==
    \A i \in RunIds : runs[i].status = "running" => InProgress(i)

\* C5: the only status changes of a JobRun are running -> success and
\* running -> failed; success, failed and skipped are never left (so a run
\* changes status at most once, and a run created skipped stays skipped).
C5_StatusTransitions ==
    [][\A i \in RunIds :
          runs'[i].status # runs[i].status
          => (runs[i].status = "running" /\ runs'[i].status \in {"success", "failed"})
      ]_jobVars

\* C5 witness: an invocation whose run was created skipped has ended with the
\* body's exception passing through, and the row is still skipped.
C5_Witness ==
    \E p \in Procs :
        /\ outcome[p].run # 0
        /\ outcome[p].kind = "raised"
        /\ runs[outcome[p].run].status = "skipped"

\* C6: when the stage logic of an invocation whose run was created running
\* raised an Exception, then once the invocation has ended the run is failed,
\* its error_message is the exception's message, finished_at is set and the
\* invoker has received that same exception.
C6_FailureRecordedAndReraised ==
    \A p \in Procs :
        (outcome[p].bodyExc \in Msgs /\ outcome[p].run # 0
           /\ runs[outcome[p].run].status # "skipped")
        => LET r == runs[outcome[p].run]
           IN /\ r.status = "failed"
              /\ r.error_message = outcome[p].bodyExc
              /\ r.finished
              /\ outcome[p].kind = "raised"
              /\ outcome[p].exc = outcome[p].bodyExc


\* C22: of two invocations of collect_from_gmail at most one is past the lock
\* acquisition at any time (creating its running row, processing the mailbox
\* or finishing); the other one is skipped.
C22_MailboxRunsExclusive ==
    \A p, q \in Procs :
        p # q => ~(/\ pc[p] \in {"gm_create", "gm_body", "gm_finally"}
                   /\ pc[q] \in {"gm_create", "gm_body", "gm_finally"})

\* C7: an advisory lock is held only by a session whose process is running an
\* invocation: once an invocation that acquired the lock has ended, the lock
\* is free, so that a later invocation of the job name is not skipped.
C7_LockFreeAfterExit ==
    \A j \in JobNames : pgLock[j].holder # 0 => pc[pgLock[j].holder] # "idle"

\* C39: the lock file of collect_from_gmail exists only while the invocation
\* that wrote it is in progress: once that invocation has ended, however it
\* ended, the file is absent.
C39_LockFileAbsentAfterExit ==
    lockFile # 0 => pc[lockFile] # "idle"

(***************************************************************************)
(* PART 2 - INTAKE: content store, document registry, intake adapters      *)
(***************************************************************************)

\* File contents are abstract byte strings 1..NumContents.
NumContents == 2
Contents == 1..NumContents

\* File names found in the scanned directory and in the mailbox (the common
\* extension is left out).
Names == {"a", "b"}

\* The calendar day of every run of one behaviour (timezone.now().date()).
Day == "D"

\* Upper bound on the number of adapter runs started in one behaviour.
MaxRuns == 2

VARIABLES
    fs,     \* the files under VAR_DIR: a set of [path, c, ok]
    docs,   \* the receipts table, in insertion order
    ad,     \* ad[p]: locals of the adapter run of process p
    nRuns,  \* number of adapter runs started so far
    snap,   \* files and registry as they were when the latest run started
    mbox    \* the attachments of the messages the mailbox query returns

intakeVars == <<fs, docs, ad, nRuns, snap, mbox>>

(* ---- content store (ocr/services/storage.py) --------------------------- *)

\* hashlib.sha256 over the bytes: distinct contents have distinct digests.
Sha256(c) == 100 + c

Exists(f, path) == \E x \in f : x.path = path
FileAt(f, path) == CHOOSE x \in f : x.path = path
Parent(path) == SubSeq(path, 1, Len(path) - 1)
Last(path) == path[Len(path)]
IsUnder(base, path) ==
    Len(path) > Len(base) /\ SubSeq(path, 1, Len(base)) = base

\* path.write_bytes(content): creates or overwrites.
WriteFile(f, path, c) ==
    {x \in f : x.path # path} \cup {[path |-> path, c |-> c, ok |-> TRUE]}

\* path.unlink()
RemoveFile(f, path) == {x \in f : x.path # path}

\* shutil.move(src, dst) of a file: a rename that replaces an existing dst.
ShutilMove(f, src, dst) ==
    {x \in f : x.path # src /\ x.path # dst}
        \cup {[FileAt(f, src) EXCEPT !.path = dst]}

\* rel_join(dir_posix, filename): the directory itself when its last segment
\* already is the file name, else directory / filename.
RelJoin(d, fn) ==
    IF Len(d) > 0 /\ Last(d) = fn THEN d ELSE Append(d, fn)

\* move_into_receipts_raw: destination receipts_raw/<date>[/subdirs]/name;
\* a source already under receipts_raw is its own destination.
MoveDst(src) ==
    IF src[1] = "receipts_raw" THEN src
    ELSE <<"receipts_raw", Day>>
            \o (IF Len(src) > 2 THEN SubSeq(src, 2, Len(src) - 1) ELSE <<>>)
            \o <<Last(src)>>

\* move_into_receipts_raw: moved is false for a source under receipts_raw and
\* for a missing source (two distinct paths are never the same file here).
MoveMoved(f, src) == src[1] # "receipts_raw" /\ Exists(f, src)

MoveIntoReceiptsRaw(f, src) ==
    IF MoveMoved(f, src) THEN ShutilMove(f, src, MoveDst(src)) ELSE f

(* ---- document registry (ocr/models.py) --------------------------------- *)

DocIds == 1..Len(docs)

\* Receipt.objects.filter(content_hash=h).exists(): the duplicate pre-check
\* of the adapters.
\* (a faulty variant: the pre-check never finds a row)
HashExistsMutant(d, h) == FALSE
HashExists(d, h) == \E i \in 1..Len(d) : d[i].hash = h

\* The unique constraint on content_hash, checked by the database at insert.
\* (a faulty variant: no constraint)
UniqueOKMutant(d, h) == TRUE
UniqueOK(d, h) == \A i \in 1..Len(d) : d[i].hash # h

\* A new row: raw_text, embedding and brand are NULL.
NewDoc(h, state, source_path, filename, source, att) ==
    [hash |-> h, state |-> state, source_path |-> source_path,
     original_filename |-> filename, source |-> source, att |-> att,
     raw_text |-> 0, embedding |-> FALSE, brand |-> 0]

\* The file a row points to: source_path joined with original_filename (the
\* rows of services/collect_from_dir.py hold the whole path in source_file).
DocFile(r) ==
    IF r.original_filename = "" THEN r.source_path
    ELSE RelJoin(r.source_path, r.original_filename)

\* finalize_collected_move(pk): for a row still collected, move its file into
\* the dated bucket and, when moved, store the new parent as source_path.
\* (a faulty variant: the row keeps its source_path)
FinalizeDocsMutant(d, f, k) == d
FinalizeDocs(d, f, k) ==
    IF d[k].state = "collected" /\ MoveMoved(f, DocFile(d[k]))
    THEN [d EXCEPT ![k].source_path = Parent(MoveDst(DocFile(d[k])))]
    ELSE d

FinalizeFs(d, f, k) ==
    IF d[k].state = "collected" THEN MoveIntoReceiptsRaw(f, DocFile(d[k])) ELSE f

(* ---- intake adapters ---------------------------------------------------- *)

\* The scanned directory, and the store of services/collect_from_dir.py with
\* its raw area, all relative to VAR_DIR (RECEIPTS_STORE_DIR = VAR_DIR).
ScanBase == <<"incoming">>
StoreBase == <<>>
StoreRaw == StoreBase \o <<"receipts_raw">>

\* ALLOWED_MIME_TYPES of the gmail settings.
AllowedMimes == {"image/jpeg", "image/png", "application/pdf"}

\* An attachment as the provider describes it: attachment id, file name,
\* declared MIME type, declared size (below MIN_IMAGE_INLINE_BYTES, above
\* MAX_SIZE_BYTES, or between the two) and the bytes a fetch returns (0 when
\* the fetch of the attachment fails).
Att(id, filename, mime, size, c) ==
    [att |-> id, filename |-> filename, mime |-> mime, size |-> size, c |-> c]

\* The mailbox of the concurrent runs: two receipts with the same file name.
Inbox == << Att(1, "a", "application/pdf", "normal", 1),
            Att(2, "a", "application/pdf", "normal", 2) >>

\* The attachments a message may carry: a receipt with any bytes, and with the
\* bytes of the first content an archive, a tiny inline image, an oversize
\* document, and receipts whose file name climbs out of the day directory, is
\* absolute or names a directory below the day directory; and a receipt whose
\* bytes cannot be fetched.
AttKinds(id) ==
    {Att(id, "a", "application/pdf", "normal", c) : c \in Contents}
        \cup {Att(id, "a", "application/zip", "normal", 1),
              Att(id, "a", "image/png", "tiny", 1),
              Att(id, "a", "application/pdf", "huge", 1),
              Att(id, "../../a", "application/pdf", "normal", 1),
              Att(id, "/a", "application/pdf", "normal", 1),
              Att(id, "x/a", "application/pdf", "normal", 1),
              Att(id, "a", "application/pdf", "normal", 0)}

\* The mailboxes of two attachments.
Mailboxes == {<<x, y>> : x \in AttKinds(1), y \in AttKinds(2)}

\* The three filters of collect_from_gmail, in the order of the code.
\* (a faulty variant: every MIME type passes)
MimeDisallowedMutant(mime) == FALSE
MimeDisallowed(mime) == AllowedMimes # {} /\ mime \notin AllowedMimes
TooSmallInline(a) == a.mime = "image/png" /\ a.size = "tiny"
TooLarge(a) == a.size = "huge"
Quarantines(a) == MimeDisallowed(a.mime) \/ TooSmallInline(a) \/ TooLarge(a)

\* The segments of a file name taken as a path: "/" first when absolute.
FilenameParts(fn) ==
    IF fn = "../../a" THEN <<"..", "..", "a">>
    ELSE IF fn = "/a" THEN <<"/", "a">>
    ELSE IF fn = "x/a" THEN <<"x", "a">>
    ELSE <<fn>>

\* content = _get_attachment(...) raises
FetchFails(a) == a.c = 0

\* dest_path.write_bytes(content) raises: the file name has a directory part
\* below the day directory, which nothing creates.
WriteRaises(fn) ==
    Len(FilenameParts(fn)) > 1 /\ FilenameParts(fn)[1] \notin {"/", ".."}

\* Path(dir) / filename: an absolute right-hand side replaces the left one.
PathJoin(dir, parts) == IF parts[1] = "/" THEN parts ELSE dir \o parts

\* The file the operating system reaches through a path: each ".." leaves the
\* directory before it.
RECURSIVE OsPath(_)
OsPath(path) ==
    IF path = <<>> THEN <<>>
    ELSE LET up == OsPath(Parent(path))
         IN  IF Last(path) = ".."
             THEN (IF up = <<>> \/ up = <<"/">> THEN up ELSE Parent(up))
             ELSE Append(up, Last(path))

Idle == [kind |-> "none", pc |-> "idle", dry |-> FALSE, files |-> <<>>,
         i |-> 1, h |-> 0, dest |-> <<>>, doc |-> 0, err |-> "none",
         created |-> 0, duplicates |-> 0, scanned |-> 0, errors |-> 0,
         moved |-> 0, downloaded |-> 0, unreadable |-> 0, quarantined |-> 0,
         max_items |-> 0, budget |-> 0, fetch_failed |-> 0]

Ended(p) == ad[p].pc \in {"idle", "done", "aborted", "crashed"}

Orderings(S) ==
    {s \in [1..Cardinality(S) -> S] : \A i, j \in DOMAIN s : i # j => s[i] # s[j]}

NameRank(n) == IF n = "a" THEN 1 ELSE 2

\* ingest_from_dir: base.rglob("*") (any order the file system gives).
\* collect_from_dir: sorted(root.glob(pattern)), the files of the directory
\* itself in name order.
Listings(kind) ==
    IF kind = "collect"
    THEN {s \in Orderings({x.path : x \in {y \in fs : Parent(y.path) = ScanBase}}) :
            \A i, j \in DOMAIN s : i < j => NameRank(Last(s[i])) < NameRank(Last(s[j]))}
    ELSE Orderings({x.path : x \in {y \in fs : IsUnder(ScanBase, y.path)}})

\* _dest_path_for(raw_dir, src, digest): raw_dir/name, or the name suffixed
\* with the digest when that candidate exists.
DestPathFor(f, src, h) ==
    IF Exists(f, StoreRaw \o <<Last(src)>>)
    THEN StoreRaw \o <<Last(src) \o "__" \o ToString(h)>>
    ELSE StoreRaw \o <<Last(src)>>

\* A run of a directory scanner starts: the files are listed once.
ScanStart(p) ==
    /\ Ended(p)
    /\ nRuns < MaxRuns
    /\ nRuns' = nRuns + 1
    /\ \E kind \in {"ingest", "collect"}, dry \in BOOLEAN :
         \E l \in Listings(kind) :
            ad' = [ad EXCEPT ![p] =
                     [Idle EXCEPT !.kind = kind, !.pc = "hash", !.dry = dry,
                                  !.files = l,
                                  !.scanned = IF kind = "collect" THEN Len(l) ELSE 0]]
    /\ UNCHANGED <<fs, docs>>

\* for abs_path in files: content_hash = compute_sha256(abs_path).  A file
\* that cannot be read is logged and skipped by ingest_from_dir, counted as an
\* error by collect_from_dir.  After the last file the metrics are returned.
ScanHash(p) ==
    /\ ad[p].kind \in {"ingest", "collect"}
    /\ ad[p].pc = "hash"
    /\ LET a == ad[p]
           n == IF a.kind = "ingest" /\ a.i <= Len(a.files) THEN 1 ELSE 0
       IN IF a.i > Len(a.files)
          THEN ad' = [ad EXCEPT ![p].pc = "done"]
          ELSE IF Exists(fs, a.files[a.i]) /\ FileAt(fs, a.files[a.i]).ok
          THEN ad' = [ad EXCEPT ![p].h = Sha256(FileAt(fs, a.files[a.i]).c),
                                ![p].scanned = @ + n,
                                ![p].pc = "check"]
          ELSE ad' = [ad EXCEPT ![p].scanned = @ + n,
                                ![p].unreadable = @ + 1,
                                ![p].errors = IF a.kind = "collect" THEN @ + 1 ELSE @,
                                ![p].i = @ + 1]
    /\ UNCHANGED <<fs, docs, nRuns>>

\* if Receipt.objects.filter(content_hash=...).exists(): duplicate; continue
\* (collect_from_dir then computes the destination);  if dry_run: created += 1
ScanCheck(p) ==
    /\ ad[p].pc = "check"
    /\ LET a == ad[p]
       IN IF HashExists(docs, a.h)
          THEN ad' = [ad EXCEPT ![p].duplicates = @ + 1, ![p].i = @ + 1,
                                ![p].pc = "hash"]
          ELSE IF a.dry
          THEN ad' = [ad EXCEPT ![p].created = @ + 1, ![p].i = @ + 1,
                                ![p].pc = "hash"]
          ELSE ad' = [ad EXCEPT
                        ![p].dest = IF a.kind = "collect"
                                    THEN DestPathFor(fs, a.files[a.i], a.h) ELSE <<>>,
                        ![p].pc = IF a.kind = "collect" THEN "move" ELSE "insert"]
    /\ UNCHANGED <<fs, docs, nRuns>>

\* ingest_from_dir: r = Receipt.objects.create(state=COLLECTED, ...).  The
\* call is in no try block: an IntegrityError leaves the for loop and the
\* function.
IngestInsert(p) ==
    /\ ad[p].pc = "insert"
    /\ LET a == ad[p]
       IN IF UniqueOK(docs, a.h)
          THEN /\ docs' = Append(docs, NewDoc(a.h, "collected", Parent(a.files[a.i]),
                                              Last(a.files[a.i]), "dir", 0))
               /\ ad' = [ad EXCEPT ![p].doc = Len(docs) + 1, ![p].pc = "finalize"]
          ELSE /\ ad' = [ad EXCEPT ![p].err = "IntegrityError", ![p].pc = "aborted"]
               /\ UNCHANGED docs
    /\ UNCHANGED <<fs, nRuns>>

\* ingest_from_dir: finalize_collected_move(r.pk, today); created += 1
IngestFinalize(p) ==
    /\ ad[p].pc = "finalize"
    /\ docs' = FinalizeDocs(docs, fs, ad[p].doc)
    /\ fs' = FinalizeFs(docs, fs, ad[p].doc)
    /\ ad' = [ad EXCEPT ![p].created = @ + 1, ![p].i = @ + 1, ![p].pc = "hash"]
    /\ UNCHANGED nRuns

\* collect_from_dir: shutil.move(p, dest_path); moved += 1.  A source that is
\* gone raises; except Exception counts one error and goes on.
CollectMove(p) ==
    /\ ad[p].pc = "move"
    /\ LET a == ad[p]
       IN IF Exists(fs, a.files[a.i])
          THEN /\ fs' = ShutilMove(fs, a.files[a.i], a.dest)
               /\ ad' = [ad EXCEPT ![p].moved = @ + 1, ![p].pc = "cinsert"]
          ELSE /\ ad' = [ad EXCEPT ![p].errors = @ + 1, ![p].i = @ + 1,
                                   ![p].pc = "hash"]
               /\ UNCHANGED fs
    /\ UNCHANGED <<docs, nRuns>>

\* collect_from_dir: with transaction.atomic(): Receipt.objects.create(...);
\* created += 1.  An IntegrityError is caught by except Exception: errors += 1.
CollectInsert(p) ==
    /\ ad[p].pc = "cinsert"
    /\ LET a == ad[p]
       IN IF UniqueOK(docs, a.h)
          THEN /\ docs' = Append(docs, NewDoc(a.h, "collected",
                                   SubSeq(a.dest, Len(StoreBase) + 1, Len(a.dest)),
                                   "", "dir", 0))
               /\ ad' = [ad EXCEPT ![p].created = @ + 1, ![p].i = @ + 1,
                                   ![p].pc = "hash"]
          ELSE /\ ad' = [ad EXCEPT ![p].err = "IntegrityError",
                                   ![p].errors = @ + 1, ![p].i = @ + 1,
                                   ![p].pc = "hash"]
               /\ UNCHANGED docs
    /\ UNCHANGED <<fs, nRuns>>

\* The largest attachment budget (max_items) a run is started with.
MaxItems == 1

\* attach_budget when max_items is 0 (or None with no configured value).
NoBudget == 1000000000

\* attach_budget = int(max_items) if max_items else 10**9
AttachBudget(max_items) == IF max_items # 0 THEN max_items ELSE NoBudget

\* collect_from_gmail starts a run over the attachments of the mailbox, with
\* an attachment budget.
MailStart(p) ==
    /\ Ended(p)
    /\ nRuns < MaxRuns
    /\ nRuns' = nRuns + 1
    /\ \E dry \in BOOLEAN, max_items \in 0..MaxItems :
         ad' = [ad EXCEPT ![p] =
                  [Idle EXCEPT !.kind = "gmail", !.pc = "mcheck", !.dry = dry,
                               !.files = mbox, !.max_items = max_items,
                               !.budget = AttachBudget(max_items)]]
    /\ UNCHANGED <<fs, docs>>

\* metrics["attachments_seen"] += 1
\* (a faulty variant: the attachment is not counted)
SeenMutant(a) == a
Seen(a) == [a EXCEPT !.scanned = @ + 1]

\* Per attachment: stop when the budget is used up (if attach_budget <= 0:
\* break); the three filters (quarantined += 1; continue), then fetch
\* the bytes (the call may fail: errors_count += 1; continue), hash them, then
\* the two duplicate checks (by attachment id among the gmail rows, by content
\* hash).
MailCheck(p) ==
    /\ ad[p].pc = "mcheck"
    /\ LET a == ad[p]
       IN IF a.i > Len(a.files) \/ a.budget <= 0
          THEN ad' = [ad EXCEPT ![p].pc = "done"]
          ELSE IF Quarantines(a.files[a.i])
          THEN ad' = [ad EXCEPT ![p] = [Seen(a) EXCEPT !.quarantined = @ + 1,
                                                      !.i = @ + 1]]
          ELSE IF FetchFails(a.files[a.i])
          THEN ad' = [ad EXCEPT ![p] = [Seen(a) EXCEPT !.errors = @ + 1,
                                                      !.fetch_failed = @ + 1,
                                                      !.i = @ + 1]]
          ELSE LET h == Sha256(a.files[a.i].c)
               IN IF \/ \E k \in DocIds : /\ docs[k].source = "gmail"
                                          /\ docs[k].att = a.files[a.i].att
                     \/ HashExists(docs, h)
                  THEN ad' = [ad EXCEPT ![p] = [Seen(a) EXCEPT !.h = h,
                                                              !.duplicates = @ + 1,
                                                              !.i = @ + 1]]
                  ELSE ad' = [ad EXCEPT ![p] =
                                [Seen(a) EXCEPT
                                   !.h = h,
                                   !.dest = OsPath(PathJoin(<<"incoming", Day>>,
                                                FilenameParts(a.files[a.i].filename))),
                                   !.pc = "mwrite"]]
    /\ UNCHANGED <<fs, docs, nRuns>>

\* if not dry_run: dest_path.write_bytes(data); attachments_downloaded += 1
\* (in a dry run the end of the loop body follows: attach_budget -= 1).  When
\* write_bytes raises (OSError), the exception leaves the loops: except
\* Exception counts one error, the status is FAILED and the run ends.
MailWrite(p) ==
    /\ ad[p].pc = "mwrite"
    /\ LET a == ad[p]
       IN IF a.dry
          THEN /\ ad' = [ad EXCEPT ![p].downloaded = @ + 1, ![p].i = @ + 1,
                                   ![p].budget = @ - 1, ![p].pc = "mcheck"]
               /\ UNCHANGED fs
          ELSE IF WriteRaises(a.files[a.i].filename)
          THEN /\ ad' = [ad EXCEPT ![p].err = "OSError", ![p].errors = @ + 1,
                                   ![p].pc = "aborted"]
               /\ UNCHANGED fs
          ELSE /\ fs' = WriteFile(fs, a.dest, a.files[a.i].c)
               /\ ad' = [ad EXCEPT ![p].downloaded = @ + 1, ![p].pc = "minsert"]
    /\ UNCHANGED <<docs, nRuns>>

\* Receipt.objects.create(state=INGESTED, ...); receipts_created += 1
\* except (IntegrityError, DataError): errors_count += 1; dest_path.unlink()
\* then attach_budget -= 1
MailInsert(p) ==
    /\ ad[p].pc = "minsert"
    /\ LET a == ad[p]
       IN IF UniqueOK(docs, a.h)
          THEN /\ docs' = Append(docs, NewDoc(a.h, "ingested",
                                   PathJoin(<<"incoming", Day>>,
                                            FilenameParts(a.files[a.i].filename)),
                                   a.files[a.i].filename, "gmail", a.files[a.i].att))
               /\ ad' = [ad EXCEPT ![p].created = @ + 1, ![p].i = @ + 1,
                                   ![p].budget = @ - 1, ![p].pc = "mcheck"]
               /\ UNCHANGED fs
          ELSE /\ ad' = [ad EXCEPT ![p].err = "IntegrityError",
                                   ![p].errors = @ + 1, ![p].i = @ + 1,
                                   ![p].budget = @ - 1, ![p].pc = "mcheck"]
               /\ fs' = RemoveFile(fs, a.dest)
               /\ UNCHANGED docs
    /\ UNCHANGED nRuns

\* ReceiptAdmin.save_model for a new collected row: prepare_collected hashes
\* the named file, the row is inserted (no pre-check: the unique constraint
\* alone rejects a duplicate), the move is registered for after the commit.
AdminSave(p) ==
    /\ Ended(p)
    /\ nRuns < MaxRuns
    /\ nRuns' = nRuns + 1
    /\ \E x \in {y \in fs : Parent(y.path) = ScanBase /\ y.ok} :
         LET h == Sha256(x.c)
         IN IF UniqueOK(docs, h)
            THEN /\ docs' = Append(docs, NewDoc(h, "collected", Parent(x.path),
                                                Last(x.path), "admin", 0))
                 /\ ad' = [ad EXCEPT ![p] =
                             [Idle EXCEPT !.kind = "admin", !.h = h,
                                          !.doc = Len(docs) + 1, !.created = 1,
                                          !.pc = "afinalize"]]
            ELSE /\ ad' = [ad EXCEPT ![p] =
                             [Idle EXCEPT !.kind = "admin", !.h = h,
                                          !.err = "IntegrityError",
                                          !.pc = "aborted"]]
                 /\ UNCHANGED docs
    /\ UNCHANGED fs

\* transaction.on_commit: finalize_collected_move(obj.pk, move_date)
AdminFinalize(p) ==
    /\ ad[p].pc = "afinalize"
    /\ docs' = FinalizeDocs(docs, fs, ad[p].doc)
    /\ fs' = FinalizeFs(docs, fs, ad[p].doc)
    /\ ad' = [ad EXCEPT ![p].pc = "done"]
    /\ UNCHANGED nRuns

\* The files the scanned directory may hold at the start: each name absent or
\* present with some content, readable or not.
DirChoices ==
    {f \in SUBSET [path : {ScanBase \o <<n>> : n \in Names},
                   c : Contents, ok : BOOLEAN] :
        \A x, y \in f : x.path = y.path => x = y}

NoSnap == [fs |-> {}, docs |-> <<>>, dry |-> FALSE, h |-> 0]

\* No adapter ever runs: an empty store and an empty registry.
IntakeQuiet ==
    /\ fs = {}
    /\ docs = <<>>
    /\ ad = [p \in Procs |-> Idle]
    /\ nRuns = 0
    /\ snap = NoSnap
    /\ mbox = Inbox

\* Concurrent intake: an empty registry, a directory of readable files.
IntakeInit ==
    /\ fs \in {f \in DirChoices : \A x \in f : x.ok}
    /\ docs = <<>>
    /\ ad = [p \in Procs |-> Idle]
    /\ nRuns = 0
    /\ snap = NoSnap
    /\ mbox = Inbox

\* One operator runs one directory scanner, then runs it again: the files
\* and the registry are recorded when a run starts, with the mode of the run
\* before.
ScanInit ==
    /\ fs \in DirChoices
    /\ docs = <<>>
    /\ ad = [p \in Procs |-> Idle]
    /\ nRuns = 0
    /\ snap = NoSnap
    /\ mbox = Inbox

ScanAgain ==
    /\ ScanStart(1)
    /\ ad[1].kind # "none" => ad'[1].kind = ad[1].kind
    /\ snap' = [fs |-> fs, docs |-> docs, dry |-> ad[1].dry,
                h |-> IF ad[1].pc = "crashed" THEN ad[1].h ELSE 0]

\* The process of a directory scanner dies while it is processing a new file:
\* after the pre-check and before the file is counted as created.  What is
\* committed (the row of ingest_from_dir, the move of collect_from_dir) stays.
Crash(p) ==
    /\ ad[p].pc \in {"insert", "finalize", "move", "cinsert"}
    /\ ad' = [ad EXCEPT ![p].pc = "crashed"]
    /\ UNCHANGED <<fs, docs, nRuns>>

(* ---- intake: properties ------------------------------------------------- *)

\* C2: under every interleaving of directory scans, mailbox runs and documents
\* created by hand, no two rows of the registry have the same content hash.
C2_NoTwoDocsSameHash ==
    \A i, k \in DocIds : i # k => docs[i].hash # docs[k].hash

\* An adapter passed its pre-check, lost the race and had its insert rejected
\* by the unique constraint, the winner's row being in the registry.
C2_Witness ==
    \E p \in Procs :
        /\ ad[p].kind \in {"ingest", "collect", "gmail"}
        /\ ad[p].err = "IntegrityError"
        /\ \E k \in DocIds : docs[k].hash = ad[p].h

\* The adapter of process p is at its insert, after a passed pre-check, and
\* the hash has been inserted by someone else in the meantime.
LostRace(p) ==
    /\ ad[p].pc \in {"insert", "cinsert", "minsert"}
    /\ ~UniqueOK(docs, ad[p].h)

\* C3: an insert rejected by the unique constraint after a passed pre-check is
\* recorded as a duplicate (the duplicate counter grows by one, the error
\* counter does not) and the batch goes on: the violation is never propagated.
C3_LostRaceCountedDuplicate ==
    [][\A p \in Procs :
          (LostRace(p) /\ ad'[p] # ad[p]) =>
              /\ ad'[p].duplicates = ad[p].duplicates + 1
              /\ ad'[p].errors = ad[p].errors
              /\ ad'[p].pc # "aborted"]_intakeVars

\* The second run of the scanner by process 1 has ended.
SecondRunEnded == nRuns = 2 /\ ad[1].pc \in {"done", "aborted"}

\* C10: a second run of the directory scanner over the directory as the first
\* run left it creates nothing, counts every file it scans as a duplicate and
\* leaves registry and files as they were.
C10_SecondRunNoOp ==
    SecondRunEnded =>
        /\ ad[1].pc = "done"
        /\ ad[1].created = 0
        /\ ad[1].duplicates = ad[1].scanned
        /\ docs = snap.docs
        /\ fs = snap.fs

\* C10, amended: when the first run was not a dry run, the second run creates
\* nothing, counts every file it could read as a duplicate and leaves registry
\* and files as they were.
C10_SecondRunNoOpAfterRealRun ==
    (SecondRunEnded /\ ~snap.dry) =>
        /\ ad[1].pc = "done"
        /\ ad[1].created = 0
        /\ ad[1].duplicates = ad[1].scanned - ad[1].unreadable
        /\ docs = snap.docs
        /\ fs = snap.fs

\* A second run after a real first run has scanned a file and counted it as a
\* duplicate of a row the first run created.
C10_Witness ==
    /\ SecondRunEnded
    /\ ~snap.dry
    /\ ad[1].scanned > 0
    /\ ad[1].duplicates > 0
    /\ Len(docs) > 0

\* A producer puts a new file into the scanned directory, under a name that
\* is free there.
Drop ==
    /\ \E n \in Names, c \in Contents :
         /\ ~Exists(fs, ScanBase \o <<n>>)
         /\ fs' = WriteFile(fs, ScanBase \o <<n>>, c)
    /\ UNCHANGED <<docs, ad, nRuns>>

\* C11: when the scanner crashed while processing a new file, a later
\* complete run over the same directory ends with exactly one Document for
\* that content, its file existing under receipts_raw where source_path says.
C11_RecoveredAfterCrash ==
    (nRuns = 2 /\ ad[1].pc = "done" /\ ~ad[1].dry /\ snap.h # 0) =>
        \E k \in DocIds :
            /\ docs[k].hash = snap.h
            /\ \A j \in DocIds : docs[j].hash = snap.h => j = k
            /\ IsUnder(<<"receipts_raw">>, DocFile(docs[k]))
            /\ Exists(fs, DocFile(docs[k]))

\* The first run of ingest_from_dir, not a dry run, has ended on a directory
\* that held exactly one readable file, the registry being empty.
OneNewFileScanned ==
    /\ nRuns = 1
    /\ ad[1].kind = "ingest"
    /\ ad[1].pc \in {"done", "aborted"}
    /\ ~ad[1].dry
    /\ snap.docs = <<>>
    /\ Cardinality(snap.fs) = 1
    /\ \A x \in snap.fs : x.ok

\* C12: such a scan leaves exactly one Document, with the SHA-256 of the
\* file's bytes, state collected and source_path the dated bucket
\* receipts_raw/<date>, where the file now is; the metrics are created = 1,
\* duplicates = 0, scanned = 1.
C12_NewFileIngested ==
    OneNewFileScanned =>
        \A x \in snap.fs :
            /\ ad[1].pc = "done"
            /\ Len(docs) = 1
            /\ docs[1].hash = Sha256(x.c)
            /\ docs[1].state = "collected"
            /\ docs[1].source_path = <<"receipts_raw", Day>>
            /\ Exists(fs, DocFile(docs[1]))
            /\ FileAt(fs, DocFile(docs[1])).c = x.c
            /\ ad[1].created = 1
            /\ ad[1].duplicates = 0
            /\ ad[1].scanned = 1

C12_Witness ==
    /\ OneNewFileScanned
    /\ Len(docs) = 1
    /\ ad[1].created = 1

\* The file process p is about to move into receipts_raw, and the place the
\* move aims at before any collision is looked at.
MoveSrc(p) ==
    IF ad[p].pc = "move" THEN ad[p].files[ad[p].i] ELSE DocFile(docs[ad[p].doc])

MoveTarget(p) ==
    IF ad[p].pc = "move" THEN StoreRaw \o <<Last(MoveSrc(p))>> ELSE MoveDst(MoveSrc(p))

\* The destination name suffixed with the first 8 hex digits of the digest.
Suffixed(dst, h) == Parent(dst) \o <<Last(dst) \o "__" \o ToString(h)>>

\* Process p takes a moving step while another file is at the destination.
MoveCollides(p) ==
    /\ ad[p].pc \in {"move", "finalize", "afinalize"}
    /\ ad'[p] # ad[p]
    /\ ad'[p].pc # "crashed"
    /\ Exists(fs, MoveSrc(p))
    /\ MoveTarget(p) # MoveSrc(p)
    /\ Exists(fs, MoveTarget(p))

\* C13: a move that finds another file at its destination stores the moved
\* file under the name suffixed with the digest, and the file that was there
\* stays in place with its content: a move never overwrites another file.
C13_MoveNeverOverwrites ==
    [][\A p \in Procs :
          MoveCollides(p) =>
              /\ Exists(fs', MoveTarget(p))
              /\ FileAt(fs', MoveTarget(p)).c = FileAt(fs, MoveTarget(p)).c
              /\ Exists(fs', Suffixed(MoveTarget(p), Sha256(FileAt(fs, MoveSrc(p)).c)))
      ]_intakeVars

\* C17: an exception on one file of a directory scan (a file that cannot be
\* read, a failed move, insert or finalize) is counted as an error and the scan
\* goes on with the remaining files: no run is aborted by it, and every file
\* that could not be read is among the errors counted.
C17_PerFileErrorsCounted ==
    \A p \in Procs :
        ad[p].kind \in {"ingest", "collect"} =>
            /\ ad[p].pc # "aborted"
            /\ ad[p].errors >= ad[p].unreadable

\* job_context around a directory scan: the JobRun is saved with status
\* SUCCESS when the scan returns and FAILED when it raises.
ScanJobStatus(a) ==
    CASE a.pc = "done" -> "success"
      [] a.pc = "aborted" -> "failed"
      [] OTHER -> "running"

\* C32: a directory scan in which a file could not be read never ends with a
\* JobRun of status success and metrics that show no error.
C32_NoSilentPartialSuccess ==
    \A p \in Procs :
        (ad[p].kind \in {"ingest", "collect"} /\ ad[p].unreadable > 0) =>
            ~(ScanJobStatus(ad[p]) = "success" /\ ad[p].errors = 0)

(* ---- mailbox collector on its own ---------------------------------------- *)

\* The registry is empty, or holds the one row a directory scan made of a file
\* with the first content; the mailbox is any of Mailboxes.
MailInit ==
    /\ \/ fs = {} /\ docs = <<>>
       \/ /\ fs = {[path |-> <<"receipts_raw", Day, "a">>, c |-> 1, ok |-> TRUE]}
          /\ docs = <<NewDoc(Sha256(1), "collected", <<"receipts_raw", Day>>,
                             "a", "dir", 0)>>
    /\ ad = [p \in Procs |-> Idle]
    /\ nRuns = 0
    /\ snap = NoSnap
    /\ mbox \in Mailboxes

\* Process p takes the step of collect_from_gmail that classifies its current
\* attachment (the budget of the run lets it reach the attachment).
Classifies(p) ==
    /\ ad[p].pc = "mcheck"
    /\ ad[p].i <= Len(ad[p].files)
    /\ ad[p].budget > 0
    /\ ad'[p] # ad[p]

CurrentAtt(p) == ad[p].files[ad[p].i]

\* C16: no row of the registry has a source_path that is absolute or has a
\* ".." segment.
C16_NoTraversalStored ==
    \A k \in DocIds :
        /\ docs[k].source_path[1] # "/"
        /\ \A n \in 1..Len(docs[k].source_path) : docs[k].source_path[n] # ".."

\* The registry holds a row made by the directory scanner with the hash of the
\* bytes of the current attachment of p.
KnownFromDir(p) ==
    \E k \in DocIds :
        docs[k].source = "dir" /\ docs[k].hash = Sha256(CurrentAtt(p).c)

C19_DisallowedMimeNoRow ==
    [][/\ \A p \in Procs :
            (Classifies(p) /\ CurrentAtt(p).mime \notin AllowedMimes) =>
                /\ ad'[p].quarantined = ad[p].quarantined + 1
                /\ docs' = docs
       /\ \A k \in 1..Len(docs') :
            docs'[k].source = "gmail" =>
                mbox[docs'[k].att].mime \in AllowedMimes]_<<ad, docs>>

\* A dry run has quarantined the archive of a mailbox from which an earlier,
\* real run made a row of the other attachment.
C19_Witness ==
    /\ nRuns = 2 /\ ad[1].kind = "gmail" /\ ad[1].dry /\ ad[1].pc = "done"
    /\ ad[1].quarantined = 1
    /\ \E n \in 1..2 : mbox[n].mime \notin AllowedMimes
    /\ \E k \in DocIds : docs[k].source = "gmail"

\* C21: whatever the attachment budget N >= 0 of a run of the mailbox
\* collector, at most N attachments reach the write-and-insert step in it.
C21_BudgetBoundsDownloads ==
    \A p \in Procs :
        ad[p].kind = "gmail" => ad[p].downloaded <= ad[p].max_items

\* C20: in a real run the bytes of every attachment that is quarantined are
\* saved under the quarantine area; in a dry run nothing is saved.
C20_QuarantinedBytesSaved ==
    [][\A p \in Procs :
          (Classifies(p) /\ Quarantines(CurrentAtt(p))) =>
              IF ad[p].dry THEN fs' = fs
              ELSE \E x \in fs' : /\ IsUnder(<<"quarantine", Day>>, x.path)
                                  /\ x.c = CurrentAtt(p).c]_<<ad, fs>>

\* C38: between two attachments and after a run, every document the mailbox
\* collector has created has a file at its source_path, and the SHA-256 of
\* that file is the content hash of the document.
C38_MailDocsKeepTheirFile ==
    (\A p \in Procs : ad[p].pc \in {"idle", "mcheck", "done"}) =>
        \A k \in DocIds :
            docs[k].source = "gmail" =>
                \E x \in fs : /\ x.path = OsPath(docs[k].source_path)
                              /\ Sha256(x.c) = docs[k].hash

\* The attachments of the run of p that have an outcome: quarantined,
\* duplicate, downloaded, or failed fetch.
Outcomes(p) ==
    ad[p].quarantined + ad[p].duplicates + ad[p].downloaded + ad[p].fetch_failed

\* C40 (as stated): when a run of the mailbox collector has ended, each
\* attachment seen has exactly one outcome, no more rows were created than
\* attachments downloaded, and none in a dry run.
C40_EachAttachmentCountedOnce ==
    \A p \in Procs :
        (ad[p].kind = "gmail" /\ ad[p].pc \in {"done", "aborted"}) =>
            /\ ad[p].scanned = Outcomes(p)
            /\ ad[p].created <= ad[p].downloaded
            /\ ad[p].dry => ad[p].created = 0

\* C40 (amended): the same when the run has ended by leaving its loops
\* normally; when an exception has cut it short, the attachment in hand is
\* the only one seen that may have no outcome.
C40_EachAttachmentCountedOnceUnlessCutShort ==
    \A p \in Procs :
        (ad[p].kind = "gmail" /\ ad[p].pc \in {"done", "aborted"}) =>
            /\ ad[p].pc = "done" => ad[p].scanned = Outcomes(p)
            /\ Outcomes(p) <= ad[p].scanned
            /\ ad[p].scanned <= Outcomes(p) + 1
            /\ ad[p].created <= ad[p].downloaded
            /\ ad[p].dry => ad[p].created = 0

\* A run has ended normally after a quarantined attachment and a downloaded
\* one whose row it created.
C40_Witness ==
    \E p \in Procs :
        /\ ad[p].kind = "gmail" /\ ad[p].pc = "done"
        /\ ad[p].scanned = 2 /\ ad[p].quarantined = 1
        /\ ad[p].downloaded = 1 /\ ad[p].created = 1

(***************************************************************************)
(* PART 3 - STAGES: text extraction, vectorization, brand identification,  *)
(* admin actions                                                           *)
(***************************************************************************)

\* Upper bound on the number of stage runs and admin actions in one behaviour.
MaxStage == 2

VARIABLES
    lines,   \* the committed receipt lines: a set of [doc, n, text, emb]
    sr,      \* sr[p]: locals of the stage run of process p
    nStage,  \* number of stage runs and admin actions started so far
    lastOp,  \* the operation that made the latest step
    events   \* the committed processing events: a bag of [doc, step, status]

stageVars == <<lines, sr, nStage, lastOp, events>>

\* One row of processing_events.
Event(k, step, status) == [doc |-> k, step |-> step, status |-> status]

\* ProcessingEvent.objects.create(...) / INSERT INTO ocr.processing_events
AddEvent(B, e) == B (+) SetToBag({e})

\* Receipt.State / ReceiptState, and the two values written by
\* scripts/detect_brand.py and ocr/admin.py; the position of a state in the
\* pipeline (all brand states are the last stage).
StateRank(s) ==
    CASE s = "collected" -> 0
      [] s = "ingested" -> 1
      [] s = "ocr_done" -> 2
      [] s = "vectorized" -> 3
      [] OTHER -> 4

\* path.read_text(encoding="utf-8", errors="ignore"): the bytes that are not
\* valid UTF-8 are dropped.  Content 2 is content 1 followed by such a byte;
\* every other content is valid text.
ReadTxt(c) == IF c = 2 THEN 1 ELSE c

\* _sha256_text(s): the digest of the text encoded back to UTF-8.
Sha256Text(t) == Sha256(t)

\* raw_text.splitlines(): text t has t + 1 lines, the second of them empty
\* (line 0 is the empty line).
SplitLines(t) == [n \in 1..(t + 1) |-> IF n = 2 THEN 0 ELSE 10 * t + n]

\* enumerate(lines, start=1) as fresh ReceiptLine rows of receipt k.
\* (a faulty variant: the numbering starts at 0)
NewLinesMutant(k, t) ==
    {[doc |-> k, n |-> n - 1, text |-> SplitLines(t)[n], emb |-> FALSE] :
        n \in 1..Len(SplitLines(t))}
NewLines(k, t) ==
    {[doc |-> k, n |-> n, text |-> SplitLines(t)[n], emb |-> FALSE] :
        n \in 1..Len(SplitLines(t))}

NoStage == [kind |-> "none", pc |-> "idle", dry |-> FALSE, sel |-> <<>>,
            i |-> 1, text |-> 0, ins |-> {}, del |-> {}, pending |-> {},
            ev |-> EmptyBag,
            processed |-> 0, skipped_missing_file |-> 0, errors |-> 0,
            lines_created |-> 0]

StageEnded(p) ==
    sr[p].pc \in {"idle", "done", "crashed in read", "crashed in lines",
                  "crashed in save"}

\* The ids of S in creation order (order_by("created_at")).
InOrder(S) ==
    CHOOSE s \in [1..Cardinality(S) -> S] :
        \A i, j \in 1..Cardinality(S) : i < j => s[i] < s[j]

\* The row is locked by the open transaction of another brand run, which has
\* updated it and not yet committed: a writer waits.
Locked(k, p) == \E q \in Procs \ {p} : k \in sr[q].pending

\* The file a row of the registry names, under base_dir.
TextFile(r) == StoreBase \o DocFile(r)

\* Receipt.objects.filter(state=ReceiptState.COLLECTED), scope "all"
OcrSelects(r) == r.state = "collected"

\* ingest_ocr: qs = Receipt.objects.filter(state=COLLECTED); the rows are
\* read once, when the iteration starts.
OcrStart(p) ==
    /\ StageEnded(p)
    /\ nStage < MaxStage
    /\ nStage' = nStage + 1
    /\ \E dry \in BOOLEAN :
         sr' = [sr EXCEPT ![p] =
                  [NoStage EXCEPT !.kind = "ocr", !.pc = "read", !.dry = dry,
                      !.sel = InOrder({k \in DocIds : OcrSelects(docs[k])})]]
    /\ lastOp' = "ingest_ocr"
    /\ UNCHANGED <<docs, lines, events>>

\* for rec in qs: a missing file is skipped; the text is read, hashed and
\* split; a dry run counts and goes on.  A file that cannot be read raises
\* inside the try: except Exception counts one error and creates an error
\* event, whether the run is dry or not.
OcrRead(p) ==
    /\ sr[p].kind = "ocr"
    /\ sr[p].pc = "read"
    /\ LET a == sr[p]
       IN IF a.i > Len(a.sel)
          THEN /\ sr' = [sr EXCEPT ![p].pc = "done"]
               /\ UNCHANGED events
          ELSE LET k == a.sel[a.i]
                   f == TextFile(docs[k])
               IN IF ~Exists(fs, f)
                  THEN /\ sr' = [sr EXCEPT ![p].skipped_missing_file = @ + 1,
                                           ![p].i = @ + 1]
                       /\ UNCHANGED events
                  ELSE IF ~FileAt(fs, f).ok
                  THEN /\ sr' = [sr EXCEPT ![p].errors = @ + 1, ![p].i = @ + 1]
                       /\ events' = AddEvent(events, Event(k, "ingest", "error"))
                  ELSE IF a.dry
                  THEN /\ sr' = [sr EXCEPT
                                   ![p].processed = @ + 1,
                                   ![p].lines_created =
                                       @ + Len(SplitLines(ReadTxt(FileAt(fs, f).c))),
                                   ![p].i = @ + 1]
                       /\ UNCHANGED events
                  ELSE /\ sr' = [sr EXCEPT ![p].text = ReadTxt(FileAt(fs, f).c),
                                           ![p].pc = "lines"]
                       /\ UNCHANGED events
    /\ lastOp' = "ingest_ocr"
    /\ UNCHANGED <<docs, lines, nStage>>

\* with transaction.atomic(): the table of lines as the rest of the system has
\* it while the delete and the insert of the lines of receipt k are not yet
\* committed.
\* (a faulty variant: the delete and the insert are committed at once)
InTransactionMutant(ls, k, t) == {l \in ls : l.doc # k} \cup NewLines(k, t)
InTransaction(ls, k, t) == ls

\* with transaction.atomic(): ReceiptLine.objects.filter(receipt=rec).delete();
\* ReceiptLine.objects.bulk_create(objs).  The lines another open transaction
\* has inserted for the receipt are not seen by the delete and make the insert
\* fail on the (receipt, line number) constraint: except Exception counts one
\* error.
OcrLines(p) ==
    /\ sr[p].pc = "lines"
    /\ LET a == sr[p]
           k == a.sel[a.i]
       IN IF \E q \in Procs \ {p} : \E l \in sr[q].ins : l.doc = k
          THEN /\ sr' = [sr EXCEPT ![p].errors = @ + 1, ![p].i = @ + 1,
                                   ![p].pc = "read"]
               /\ events' = AddEvent(events, Event(k, "ingest", "error"))
               /\ UNCHANGED lines
          ELSE /\ sr' = [sr EXCEPT ![p].del = {l \in lines : l.doc = k},
                                   ![p].ins = NewLines(k, a.text),
                                   ![p].pc = "save"]
               /\ lines' = InTransaction(lines, k, a.text)
               /\ UNCHANGED events
    /\ lastOp' = "ingest_ocr"
    /\ UNCHANGED <<docs, nStage>>

\* The process of an extraction run dies (kill, power loss): its open
\* transaction, if any, is rolled back by the database.
OcrCrash(p) ==
    /\ sr[p].kind = "ocr"
    /\ sr[p].pc \in {"read", "lines", "save"}
    /\ sr' = [sr EXCEPT ![p].pc = "crashed in " \o sr[p].pc,
                        ![p].ins = {}, ![p].del = {}]
    /\ lastOp' = "crash"
    /\ UNCHANGED <<docs, lines, nStage, events>>

\* rec.raw_text = raw_text; rec.sha256 = digest; rec.state = OCR_DONE;
\* rec.save(update_fields=[...]) and the commit.  The UPDATE names the row by
\* its key alone.  A digest another row already has violates the unique
\* constraint: the transaction is rolled back, one error is counted and an
\* error event is created.  The "ok" event is part of the transaction.
OcrSave(p) ==
    /\ sr[p].pc = "save"
    /\ LET a == sr[p]
           k == a.sel[a.i]
       IN /\ ~Locked(k, p)
          /\ IF \E j \in DocIds \ {k} : docs[j].hash = Sha256Text(a.text)
             THEN /\ sr' = [sr EXCEPT ![p].errors = @ + 1, ![p].i = @ + 1,
                                      ![p].ins = {}, ![p].del = {},
                                      ![p].pc = "read"]
                  /\ events' = AddEvent(events, Event(k, "ingest", "error"))
                  /\ UNCHANGED <<docs, lines>>
             ELSE /\ docs' = [docs EXCEPT ![k].raw_text = a.text,
                                          ![k].hash = Sha256Text(a.text),
                                          ![k].state = "ocr_done"]
                  /\ lines' = (lines \ a.del) \cup a.ins
                  /\ events' = AddEvent(events, Event(k, "ingest", "ok"))
                  /\ sr' = [sr EXCEPT ![p].processed = @ + 1,
                                      ![p].lines_created = @ + Cardinality(a.ins),
                                      ![p].i = @ + 1,
                                      ![p].ins = {}, ![p].del = {},
                                      ![p].pc = "read"]
    /\ lastOp' = "ingest_ocr"
    /\ UNCHANGED nStage

\* scripts/vectorize_embeddings.py, one receipt without embedding: the
\* embedding of the receipt and of its lines and the "ok" event are written in
\* one transaction.
\* The state of the receipt is not written.  The update of a line that the
\* open transaction of an extraction has deleted waits for that transaction.
Vectorize(p) ==
    /\ StageEnded(p)
    /\ \E k \in DocIds :
         /\ ~docs[k].embedding
         /\ ~Locked(k, p)
         /\ \A q \in Procs \ {p} : \A l \in sr[q].del : l.doc # k
         /\ docs' = [docs EXCEPT ![k].embedding = TRUE]
         /\ lines' = {IF l.doc = k THEN [l EXCEPT !.emb = TRUE] ELSE l : l \in lines}
         /\ events' = AddEvent(events, Event(k, "embed", "ok"))
    /\ lastOp' = "vectorize"
    /\ UNCHANGED <<sr, nStage>>

\* The brand ids (there is one brand with one alias).
BrandId == 1

\* scripts/detect_brand.py: SELECT id FROM receipts WHERE brand IS NULL, in
\* one transaction that is committed after the last receipt.
BrandStart(p) ==
    /\ StageEnded(p)
    /\ nStage < MaxStage
    /\ nStage' = nStage + 1
    /\ sr' = [sr EXCEPT ![p] =
                [NoStage EXCEPT !.kind = "brand", !.pc = "brand",
                                !.sel = InOrder({k \in DocIds : docs[k].brand = 0})]]
    /\ lastOp' = "detect_brand"
    /\ UNCHANGED <<docs, lines, events>>

\* best_brand_for_receipt has a brand only for a receipt with an embedded
\* line, and then only when an alias scores above 0.
BrandFound(k) == \E l \in lines : l.doc = k /\ l.emb

\* else: INSERT INTO ocr.processing_events (..., 'brand', 'error', ...,
\* 'no-brand-found'), in the transaction of the run.
\* (a faulty variant: no event is written)
NoBrandFoundMutant(ev, k) == ev
NoBrandFound(ev, k) == AddEvent(ev, Event(k, "brand", "error"))

\* for r in receipts: with a brand, UPDATE receipts SET brand, state =
\* 'brand-2-validate' WHERE id (the row stays locked until the commit) and an
\* "ok" event; without one, an error event; on an exception the transaction is
\* rolled back, which undoes the updates and the events of the receipts
\* before, and an error event is written.
BrandStep(p) ==
    /\ sr[p].pc = "brand"
    /\ sr[p].i <= Len(sr[p].sel)
    /\ LET a == sr[p]
           k == a.sel[a.i]
       IN \/ /\ BrandFound(k)
             /\ ~Locked(k, p)
             /\ sr' = [sr EXCEPT ![p].pending = @ \cup {k},
                                 ![p].ev = AddEvent(@, Event(k, "brand", "ok")),
                                 ![p].processed = @ + 1, ![p].i = @ + 1]
          \/ sr' = [sr EXCEPT ![p].ev = NoBrandFound(@, k),
                              ![p].processed = @ + 1, ![p].i = @ + 1]
          \/ sr' = [sr EXCEPT ![p].pending = {},
                              ![p].ev = AddEvent(EmptyBag, Event(k, "brand", "error")),
                              ![p].errors = @ + 1, ![p].i = @ + 1]
    /\ lastOp' = "detect_brand"
    /\ UNCHANGED <<docs, lines, nStage, events>>

\* The end of "with conn:": the updates and the events are committed.
BrandCommit(p) ==
    /\ sr[p].pc = "brand"
    /\ sr[p].i > Len(sr[p].sel)
    /\ docs' = [k \in DocIds |->
                  IF k \in sr[p].pending
                  THEN [docs[k] EXCEPT !.brand = BrandId,
                                       !.state = "brand-2-validate"]
                  ELSE docs[k]]
    /\ events' = events (+) sr[p].ev
    /\ sr' = [sr EXCEPT ![p].pending = {}, ![p].ev = EmptyBag, ![p].pc = "done"]
    /\ lastOp' = "detect_brand"
    /\ UNCHANGED <<lines, nStage>>

\* ocr/admin/actions.py mark_brand_identified (state BRAND_STORE_IDENTIFIED)
\* and ocr/admin.py mark_brand_validated (state "brand-validated"):
\* queryset.update(state=...) on the selected rows, whatever their state.
MarkBrand ==
    /\ nStage < MaxStage
    /\ nStage' = nStage + 1
    /\ \E S \in SUBSET DocIds \ {{}} :
         \E s \in {"brand_store_identified", "brand-validated"} :
            /\ \A k \in S : ~Locked(k, 0)
            /\ docs' = [k \in DocIds |->
                          IF k \in S THEN [docs[k] EXCEPT !.state = s] ELSE docs[k]]
    /\ lastOp' = "mark_brand"
    /\ UNCHANGED <<lines, sr, events>>

\* reset_brand, for one selected row: r.brand = None; r.state = INGESTED;
\* r.save(update_fields=["brand", "state"])
ResetBrand ==
    /\ nStage < MaxStage
    /\ nStage' = nStage + 1
    /\ \E k \in DocIds :
         /\ ~Locked(k, 0)
         /\ docs' = [docs EXCEPT ![k].brand = 0, ![k].state = "ingested"]
    /\ lastOp' = "reset_brand"
    /\ UNCHANGED <<lines, sr, events>>

\* No stage ever runs.
StageQuiet ==
    /\ lines = {}
    /\ sr = [p \in Procs |-> NoStage]
    /\ nStage = 0
    /\ lastOp = "none"
    /\ events = EmptyBag

\* The registry and the store as a run of collect_from_dir leaves them: two
\* collected rows with distinct contents, each naming its file under
\* receipts_raw; the second file may since have been lost or made unreadable.
StageInit ==
    /\ \E ca, cb \in Contents :
         /\ ca # cb
         /\ docs = << NewDoc(Sha256(ca), "collected", <<"receipts_raw", "a">>, "", "dir", 0),
                      NewDoc(Sha256(cb), "collected", <<"receipts_raw", "b">>, "", "dir", 0) >>
         /\ \E second \in SUBSET {[path |-> StoreRaw \o <<"b">>, c |-> cb, ok |-> okb] :
                                     okb \in BOOLEAN} :
              /\ Cardinality(second) <= 1
              /\ fs = {[path |-> StoreRaw \o <<"a">>, c |-> ca, ok |-> TRUE]} \cup second
    /\ ad = [p \in Procs |-> Idle]
    /\ nRuns = 0
    /\ snap = NoSnap
    /\ mbox = Inbox
    /\ StageQuiet

(* ---- stages: properties ------------------------------------------------- *)

\* C8: whatever the stage runs and admin actions do, the state of a document
\* never moves backwards in the order collected < text extracted < vectorized
\* < brand identified, except in a step of the reset operation.
C8_StateNeverDecreases ==
    [][\A k \in DocIds :
          lastOp' # "reset_brand" =>
              StateRank(docs'[k].state) >= StateRank(docs[k].state)]_<<docs, lastOp>>

\* Process p takes the writing step of text extraction for a document that is
\* no longer in the state the run selected it in.
StaleOcrWrite(p) ==
    /\ sr[p].pc = "save"
    /\ sr'[p] # sr[p]
    /\ docs[sr[p].sel[sr[p].i]].state # "collected"

\* Process p takes the writing step of brand identification for a document
\* that another run has given a brand since p selected it.
StaleBrandWrite(p) ==
    /\ sr[p].pc = "brand"
    /\ sr[p].i <= Len(sr[p].sel)
    /\ sr'[p] # sr[p]
    /\ docs[sr[p].sel[sr[p].i]].brand # 0

\* C9: the write of a stage takes effect only if the document is still in the
\* state the stage expected; a write from a stale read is rejected and the
\* document skipped: state, lines and results written by the other run stay.
C9_StaleWriteRejected ==
    [][\A p \in Procs :
          /\ StaleOcrWrite(p) => (docs' = docs /\ lines' = lines)
          /\ StaleBrandWrite(p) => sr'[p].pending = sr[p].pending]_<<docs, lines, sr>>

\* C23: a document in state collected has no raw_text, and a document in any
\* later state has one.
C23_RawTextMatchesState ==
    \A k \in DocIds :
        /\ docs[k].state = "collected" => docs[k].raw_text = 0
        /\ docs[k].state # "collected" => docs[k].raw_text # 0

\* Receipt.State: the values the state field is declared with.
ReceiptStates ==
    {"collected", "ingested", "ocr_done", "vectorized", "brand_store_identified"}

\* C24: every value written to the state of a document is one of the states
\* the pipeline defines.
C24_StateIsDefined ==
    \A k \in DocIds : docs[k].state \in ReceiptStates

\* C25: the administrative reset puts each document it touches back in state
\* collected with no raw_text, no lines and no brand, and no other operation
\* moves the state of a document backwards.
C25_ResetClearsDerived ==
    [][\A k \in DocIds :
          /\ (lastOp' = "reset_brand" /\ docs'[k] # docs[k]) =>
                /\ docs'[k].state = "collected"
                /\ docs'[k].raw_text = 0
                /\ docs'[k].brand = 0
                /\ \A l \in lines' : l.doc # k
          /\ lastOp' # "reset_brand" =>
                StateRank(docs'[k].state) >= StateRank(docs[k].state)
      ]_<<docs, lines, lastOp>>

\* Process p commits the text extraction of its current document.
OcrCommits(p) ==
    /\ sr[p].pc = "save"
    /\ sr'[p].processed = sr[p].processed + 1

\* C26: when the extraction of a document commits, the lines of the document
\* are exactly the lines of the text of its file, numbered 1..n in source
\* order, the empty ones included; lines it had before are all replaced.
C26_LinesAreTheTextLines ==
    [][\A p \in Procs :
          OcrCommits(p) =>
              LET k == sr[p].sel[sr[p].i]
                  t == SplitLines(ReadTxt(FileAt(fs, TextFile(docs[k])).c))
              IN  /\ \A n \in 1..Len(t) :
                        \E l \in lines' : l.doc = k /\ l.n = n /\ l.text = t[n]
                  /\ \A l \in lines' : l.doc = k => l.n \in 1..Len(t)
                  /\ Cardinality({l \in lines' : l.doc = k}) = Len(t)
      ]_<<docs, lines, sr>>

\* Two real runs of the extraction have each committed the one document that
\* is extracted: the second commit found the lines of the first.
C26_Witness ==
    /\ \A p \in Procs : sr[p].kind = "ocr" /\ ~sr[p].dry /\ sr[p].processed = 1
    /\ Cardinality({k \in DocIds : docs[k].state = "ocr_done"}) = 1
    /\ \E k \in DocIds :
         /\ docs[k].state = "ocr_done"
         /\ Cardinality({l \in lines : l.doc = k}) = Len(SplitLines(docs[k].raw_text))
         /\ \E l \in lines : l.doc = k /\ l.text = 0

\* The lines of document k are the complete lines of its raw_text.
LinesComplete(k) ==
    LET t == SplitLines(docs[k].raw_text)
    IN  /\ \A n \in 1..Len(t) :
              \E l \in lines : l.doc = k /\ l.n = n /\ l.text = t[n]
        /\ Cardinality({l \in lines : l.doc = k}) = Len(t)

\* C27: whatever run of the extraction crashes or fails, and wherever, each
\* document is either still collected, with no raw_text and the lines it had
\* before (none), or extracted, with its raw_text and all of its lines.
C27_ExtractionIsAtomic ==
    \A k \in DocIds :
        \/ /\ docs[k].state = "collected"
           /\ docs[k].raw_text = 0
           /\ \A l \in lines : l.doc # k
        \/ /\ docs[k].state = "ocr_done"
           /\ docs[k].raw_text # 0
           /\ LinesComplete(k)

\* A run that had extracted one document died while saving the next one,
\* which is still collected.
C27_Witness ==
    \E p \in Procs :
        /\ sr[p].pc = "crashed in save"
        /\ sr[p].processed = 1
        /\ docs[sr[p].sel[sr[p].i]].state = "collected"
        /\ \E k \in DocIds : docs[k].state = "ocr_done"

\* C28: a step of a dry run of the text extraction leaves the lines, the
\* documents and the processing events as they are, whether the file is
\* read, missing or unreadable.
C28_DryRunWritesNothing ==
    [][\A p \in Procs :
          (sr[p].kind = "ocr" /\ sr[p].dry /\ sr[p].pc = "read" /\ sr'[p] # sr[p]) =>
              (docs' = docs /\ lines' = lines /\ events' = events)]_<<sr, docs, lines, events>>

\* Process p handles a document for which no brand is found.
NoBrandStep(p) ==
    /\ sr[p].pc = "brand"
    /\ sr[p].i <= Len(sr[p].sel)
    /\ sr'[p].processed = sr[p].processed + 1
    /\ sr'[p].pending = sr[p].pending

\* C30: when no brand is found for a document, the run writes one failure
\* event for it and no other event, leaves the brand and the state of the
\* document as they are (now and at the commit) and goes on with the next
\* document.
C30_NoBrandIsRecorded ==
    [][\A p \in Procs :
          NoBrandStep(p) =>
              LET k == sr[p].sel[sr[p].i]
              IN  /\ sr'[p].ev = sr[p].ev (+) SetToBag({Event(k, "brand", "error")})
                  /\ docs' = docs
                  /\ k \notin sr'[p].pending
                  /\ sr'[p].pc = "brand"
                  /\ sr'[p].i = sr[p].i + 1
                  /\ sr'[p].errors = sr[p].errors]_<<sr, docs>>

\* A run that found no brand for its first document, which has no embedded
\* line, has gone on and found one for the second.
C30_Witness ==
    \E p \in Procs :
        /\ sr[p].kind = "brand"
        /\ Len(sr[p].sel) = 2
        /\ ~BrandFound(sr[p].sel[1])
        /\ CopiesIn(Event(sr[p].sel[1], "brand", "error"), sr[p].ev) = 1
        /\ sr[p].sel[1] \notin sr[p].pending
        /\ sr[p].sel[2] \in sr[p].pending

\* The terminal events of step `step` for document k among the committed
\* events.
TerminalEvents(k, step) ==
    CopiesIn(Event(k, step, "ok"), events) + CopiesIn(Event(k, step, "error"), events)

\* C31: when the only stage run so far, a run that is not dry, has ended, each
\* document it handled has exactly one terminal event of that stage.
C31_OneTerminalEvent ==
    \A p \in Procs :
        (nStage = 1 /\ sr[p].pc = "done" /\ ~sr[p].dry) =>
            \A n \in 1..Len(sr[p].sel) :
                TerminalEvents(sr[p].sel[n],
                               IF sr[p].kind = "ocr" THEN "ingest" ELSE "brand") = 1

\* C34: no step of the text extraction changes the deduplication key of a
\* document, and no extraction fails on the uniqueness of that key: a step at
\* the save either leaves the document's key as intake assigned it and counts
\* the document as processed, or is a step of another process.
C34_ExtractionKeepsKey ==
    [][\A p \in Procs :
          (sr[p].pc = "save" /\ sr'[p] # sr[p] /\ sr'[p].pc = "read") =>
              /\ sr'[p].processed = sr[p].processed + 1
              /\ \A k \in DocIds : docs'[k].hash = docs[k].hash]_<<sr, docs>>

\* C35: every document the mailbox collector has inserted is in the state on
\* which the text extraction selects its input.
C35_MailDocsAreSelected ==
    \A k \in DocIds : docs[k].source = "gmail" => OcrSelects(docs[k])

\* C37: a step of brand identification in which the document raises an
\* exception keeps the brand updates and the events that the run has written
\* for the documents before it, so that the commit at the end of the batch
\* makes them durable.
C37_ExceptionKeepsEarlierResults ==
    [][\A p \in Procs :
          (sr[p].pc = "brand" /\ sr'[p].errors = sr[p].errors + 1) =>
              /\ sr[p].pending \subseteq sr'[p].pending
              /\ sr[p].ev \sqsubseteq sr'[p].ev]_sr

(***************************************************************************)
(* PART 4 - STORAGE: the functions of ocr/services/storage.py called on    *)
(* their own                                                               *)
(***************************************************************************)

\* Upper bound on the number of recorded calls in one behaviour.
MaxCalls == 3

VARIABLES
    calls   \* the calls made so far, each with its arguments and its result

\* The relative paths handed to move_into_receipts_raw.
MovePaths ==
    {<<"a">>, <<"incoming", "a">>, <<"incoming", "x", "a">>,
     <<"receipts_raw", Day, "a">>}

\* MoveResult(src_rel, dst_rel, moved) as move_into_receipts_raw returns it.
\* (a faulty variant: a missing source is reported as moved)
MoveResultMutant(f, src) ==
    [src_rel |-> src, dst_rel |-> MoveDst(src), moved |-> src[1] # "receipts_raw"]
MoveResult(f, src) ==
    [src_rel |-> src, dst_rel |-> MoveDst(src), moved |-> MoveMoved(f, src)]

\* One recorded call: the MoveResult, whether the source file was there when
\* the call was made, and the source_path of row 1 before and after.
MoveCall(op, src, d2) ==
    [op |-> op, res |-> MoveResult(fs, src), present |-> Exists(fs, src),
     before |-> docs[1].source_path, after |-> d2[1].source_path]

\* move_into_receipts_raw(src, today)
CallMove ==
    /\ Len(calls) < MaxCalls
    /\ \E src \in MovePaths :
         /\ fs' = MoveIntoReceiptsRaw(fs, src)
         /\ calls' = Append(calls, MoveCall("move", src, docs))
    /\ UNCHANGED docs

\* finalize_collected_move(pk) for the one row of the registry.
CallFinalize ==
    /\ Len(calls) < MaxCalls
    /\ docs[1].state = "collected"
    /\ docs' = FinalizeDocs(docs, fs, 1)
    /\ fs' = FinalizeFs(docs, fs, 1)
    /\ calls' = Append(calls, MoveCall("finalize", DocFile(docs[1]),
                                       FinalizeDocs(docs, fs, 1)))

StoreQuiet == calls = <<>>

\* Any subset of the paths holds a file; the registry has one collected row
\* naming incoming/a.
StoreInit ==
    /\ \E present \in SUBSET MovePaths :
         \E cs \in [present -> Contents] :
            fs = {[path |-> q, c |-> cs[q], ok |-> TRUE] : q \in present}
    /\ docs = <<NewDoc(Sha256(1), "collected", <<"incoming">>, "a", "admin", 0)>>
    /\ ad = [p \in Procs |-> Idle]
    /\ nRuns = 0
    /\ snap = NoSnap
    /\ mbox = Inbox
    /\ calls = <<>>

CallIds == 1..Len(calls)

\* C14: a second call of move_into_receipts_raw with the same source path
\* reports moved = false and the same destination as the first; a call whose
\* source file is missing reports moved = false, and finalize_collected_move
\* then leaves the row's source_path as it was.
C14_MoveIdempotent ==
    /\ \A i, j \in CallIds :
         (i < j /\ calls[i].res.src_rel = calls[j].res.src_rel) =>
            /\ ~calls[j].res.moved
            /\ calls[j].res.dst_rel = calls[i].res.dst_rel
    /\ \A i \in CallIds :
         ~calls[i].present =>
            (~calls[i].res.moved /\ calls[i].after = calls[i].before)

\* A first call moved the file, and a later finalize_collected_move of the row
\* naming the same path found it gone.
C14_Witness ==
    \E i, j \in CallIds :
        /\ i < j /\ calls[i].res.src_rel = calls[j].res.src_rel
        /\ calls[i].res.moved
        /\ calls[j].op = "finalize" /\ ~calls[j].present

(* ---- path resolution (resolve_under_var) -------------------------------- *)

\* Here a path segment is the sequence of its characters, a relative path the
\* sequence of its segments, and the string of a path a sequence of characters.
DotDot == <<".", ".">>

\* Upper bound on the number of segments of a relative path.
MaxParts == 3

\* The segments of the relative paths: "..", and the names "v" and "v2".
Segs == {DotDot, <<"v">>, <<"v", "2">>}
RelPaths == UNION {[1..n -> Segs] : n \in 0..MaxParts}

\* var_dir(): the storage root /s/v; /s/v2 is a directory beside it.
VarDir == <<<<"s">>, <<"v">>>>

\* str(path) of an absolute path.
RECURSIVE PathStr(_)
PathStr(abs) ==
    IF abs = <<>> THEN <<"/">>
    ELSE (IF Len(abs) = 1 THEN <<>> ELSE PathStr(Parent(abs)))
            \o <<"/">> \o Last(abs)

\* Path.resolve() without symbolic links: ".." drops the segment before it and
\* is dropped itself at the top.
RECURSIVE PathResolve(_)
PathResolve(abs) ==
    IF abs = <<>> THEN <<>>
    ELSE LET up == PathResolve(Parent(abs))
         IN  IF Last(abs) = DotDot
             THEN (IF up = <<>> THEN <<>> ELSE Parent(up))
             ELSE Append(up, Last(abs))

\* str.startswith
StartsWith(s, prefix) ==
    Len(s) >= Len(prefix) /\ SubSeq(s, 1, Len(prefix)) = prefix

\* resolve_under_var(rel): the resolved path, or ValidationError (ok = FALSE).
ResolveUnderVar(rel) ==
    LET abs_path == PathResolve(VarDir \o rel)
    IN  IF ~StartsWith(PathStr(abs_path), PathStr(VarDir))
        THEN [ok |-> FALSE, path |-> <<>>]
        ELSE [ok |-> TRUE, path |-> abs_path]

CallResolve ==
    /\ Len(calls) < MaxCalls
    /\ \E rel \in RelPaths :
         calls' = Append(calls, [op |-> "resolve", arg |-> rel,
                                 res |-> ResolveUnderVar(rel)])
    /\ UNCHANGED <<fs, docs>>

\* C15: resolve_under_var never returns a path outside the storage root: each
\* call either fails with a validation error or returns the root or a path
\* below it.
C15_ResolvedInsideRoot ==
    \A i \in CallIds :
        (calls[i].op = "resolve" /\ calls[i].res.ok) =>
            (calls[i].res.path = VarDir \/ IsUnder(VarDir, calls[i].res.path))

(***************************************************************************)
(* PART 5 - BRAND SCORE: scripts/detect_brand.py best_brand_for_receipt     *)
(***************************************************************************)

\* Longest raw text, in characters.
MaxText == 3

\* Characters: two letters, one of them in both cases, an apostrophe and a
\* blank (or line break).
Chars == {"u", "U", "x", "'", " "}

\* re.IGNORECASE
Lower(ch) == IF ch = "U" THEN "u" ELSE ch

\* \w of the regular expressions
IsWordChar(ch) == ch \in {"u", "U", "x"}

\* The raw texts: "\n".join of the texts of the lines.
RawTexts == UNION {[1..n -> Chars] : n \in 0..MaxText}

\* The aliases and the brand names of the reference table.
AliasStrings == {<<"u">>, <<"u", "x">>, <<"u", "'">>, <<"x">>}
BrandNames == {<<"u">>, <<"x">>}

\* The similarities 1 - distance of the nearest line, in units of 10^-5.
Sims == {1, 4, 12344, 12346, 50000, 92000, 99999, 100000}

\* \b at position j of raw (between character j and character j + 1): one
\* side is a word character and the other is not.
WordBoundary(raw, j) ==
    LET before == j >= 1 /\ IsWordChar(raw[j])
        after == j < Len(raw) /\ IsWordChar(raw[j + 1])
    IN  before # after

\* re.search(rf"\b{re.escape(w)}\b", raw, re.IGNORECASE)
ReSearch(w, raw) ==
    \E j \in 0..(Len(raw) - Len(w)) :
        /\ WordBoundary(raw, j)
        /\ \A n \in 1..Len(w) : Lower(raw[j + n]) = Lower(w[n])
        /\ WordBoundary(raw, j + Len(w))

\* round(value, places): x counts units of which `unit` make one unit of the
\* last place kept; the result counts units of that place.  No value of the
\* model lies half way between two results.
Round4(x, unit) ==
    IF 2 * (x % unit) >= unit THEN (x \div unit) + 1 ELSE x \div unit

\* max(0.0, min(1.0, x)), x in units of 10^-6
Clamp01(x) == IF x < 0 THEN 0 ELSE IF x > 1000000 THEN 1000000 ELSE x

Min(a, b) == IF a < b THEN a ELSE b

\* The bonus in units of 10^-4: regex_bonus = 0.0; += 0.2 for the alias;
\* += 0.1 for the brand name; min(regex_bonus, 0.3).
RegexBonus(alias, name, raw) ==
    LET b0 == 0
        b1 == IF ReSearch(alias, raw) THEN b0 + 2000 ELSE b0
        b2 == IF ReSearch(name, raw) THEN b1 + 1000 ELSE b1
    IN  Min(b2, 3000)

\* score_final = max(0.0, min(1.0, 0.8*score_vec + 0.2*regex_bonus)), in units
\* of 10^-6.
\* (a faulty variant: the bonus weighs 0.3)
ScoreFinalMutant(sim, bonus) == Clamp01(8 * sim + 30 * bonus)
ScoreFinal(sim, bonus) == Clamp01(8 * sim + 20 * bonus)

\* The dict best_brand_for_receipt returns for the winning alias: score_vec
\* and score in units of 10^-4, regex_bonus (rounded to 3 places) as well.
BrandResult(sim, alias, name, raw) ==
    LET bonus == RegexBonus(alias, name, raw)
    IN  [score_vec |-> Round4(sim, 10),
         regex_bonus |-> 10 * Round4(bonus, 10),
         score |-> Round4(ScoreFinal(sim, bonus), 100)]

\* One call of best_brand_for_receipt in which an alias wins.
CallBestBrand ==
    /\ calls = <<>>
    /\ \E sim \in Sims, alias \in AliasStrings, name \in BrandNames,
          raw \in RawTexts :
         calls' = <<[op |-> "best_brand", sim |-> sim, alias |-> alias,
                     name |-> name, raw |-> raw,
                     res |-> BrandResult(sim, alias, name, raw)]>>
    /\ UNCHANGED <<fs, docs>>

\* 1 if the condition holds, 0 if not.
Indicator(b) == IF b THEN 1 ELSE 0

\* C29: the result of a winning alias of similarity s has score_vec =
\* round(s, 4), regex_bonus = min(0.3, 0.2 [alias found as a word] + 0.1 [name
\* found as a word]) and score = round(clamp(0.8 s + 0.2 regex_bonus, 0, 1), 4);
\* s = 0.92 with both found gives 0.92, 0.3 and 0.796.
C29_BrandScore ==
    \A i \in CallIds :
        calls[i].op = "best_brand" =>
            LET c == calls[i]
                bonus == Min(3000, 2000 * Indicator(ReSearch(c.alias, c.raw))
                                   + 1000 * Indicator(ReSearch(c.name, c.raw)))
                exact == 8 * c.sim + 20 * bonus
                clamped == IF exact > 1000000 THEN 1000000 ELSE exact
            IN  /\ c.res.score_vec = (c.sim + 5) \div 10
                /\ c.res.regex_bonus = bonus
                /\ c.res.score = (clamped + 50) \div 100
                /\ (c.sim = 92000 /\ bonus = 3000) =>
                       c.res = [score_vec |-> 9200, regex_bonus |-> 3000,
                                score |-> 7960]

\* The example: similarity 0.92, the alias and the name both in the text.
C29_Witness ==
    \E i \in CallIds :
        /\ calls[i].op = "best_brand"
        /\ calls[i].sim = 92000
        /\ ReSearch(calls[i].alias, calls[i].raw)
        /\ ReSearch(calls[i].name, calls[i].raw)
        /\ calls[i].alias # calls[i].name

(* ---- brand score: the winning alias -------------------------------------- *)

\* Upper bound on the number of rows of brand_aliases.
MaxAliases == 3

\* The similarity of an alias to its nearest embedded line, in tenths; an
\* alias has no such line (row = FALSE) when the query returns no row.
CosVals == {-1, 0, 1, 2}
AliasRows == {[row |-> TRUE, cos |-> c] : c \in CosVals}
                 \cup {[row |-> FALSE, cos |-> 0]}
AliasLists == UNION {[1..n -> AliasRows] : n \in 1..MaxAliases}

\* best = {"brand_id": None, ..., "score_vec": 0.0, "alias": None}; idx is the
\* position of the alias kept, 0 for none.
NoBest == [idx |-> 0, score_vec |-> 0]

\* if cos > best["score_vec"]
\* (a faulty variant: an alias of equal similarity replaces the one kept)
BeatsBestMutant(cos, best) == cos >= best.score_vec
BeatsBest(cos, best) == cos > best.score_vec

\* for a in aliases: if not row: continue; if cos > best["score_vec"]:
\* best.update(...), after the first n aliases.
RECURSIVE BestAfter(_, _)
BestAfter(as, n) ==
    IF n = 0 THEN NoBest
    ELSE LET best == BestAfter(as, n - 1)
         IN  IF ~as[n].row THEN best
             ELSE IF BeatsBest(as[n].cos, best)
                  THEN [idx |-> n, score_vec |-> as[n].cos]
                  ELSE best

\* One call of best_brand_for_receipt on a receipt with lines.
CallSelectAlias ==
    /\ calls = <<>>
    /\ \E as \in AliasLists :
         calls' = <<[op |-> "select_alias", aliases |-> as,
                     res |-> BestAfter(as, Len(as))]>>
    /\ UNCHANGED <<fs, docs>>

\* The alias at position idx is the first of those of greatest similarity
\* among the positions C of the list as.
FirstMaximum(as, C, idx) ==
    /\ idx \in C
    /\ \A j \in C : as[j].cos <= as[idx].cos
    /\ \A j \in C : as[j].cos = as[idx].cos => idx <= j

\* C36 (as stated): among the aliases that have a nearest line, the one
\* selected is the first of those of greatest similarity.
C36_SelectsFirstMaximum ==
    \A i \in CallIds :
        calls[i].op = "select_alias" =>
            LET as == calls[i].aliases
                C == {j \in 1..Len(as) : as[j].row}
            IN  C # {} => FirstMaximum(as, C, calls[i].res.idx)

\* C36 (amended): among the aliases that have a nearest line of similarity
\* above 0, the one selected is the first of those of greatest similarity;
\* when there is none, no alias is selected.
C36_SelectsFirstMaximumAboveZero ==
    \A i \in CallIds :
        calls[i].op = "select_alias" =>
            LET as == calls[i].aliases
                C == {j \in 1..Len(as) : as[j].row /\ as[j].cos > 0}
            IN  IF C = {} THEN calls[i].res.idx = 0
                ELSE FirstMaximum(as, C, calls[i].res.idx)

\* Two aliases of the same greatest similarity, after a lesser one and an
\* alias without a line: the first of the two is selected.
C36_Witness ==
    \E i \in CallIds :
        /\ calls[i].op = "select_alias"
        /\ Len(calls[i].aliases) = 3
        /\ calls[i].aliases[2].row /\ calls[i].aliases[3].row
        /\ calls[i].aliases[2].cos = 2 /\ calls[i].aliases[3].cos = 2
        /\ calls[i].aliases[1].row /\ calls[i].aliases[1].cos = 1
        /\ calls[i].res.idx = 2

(***************************************************************************)
(* PART 6 - METRICS: ops/services/jobrun.py JobContext                      *)
(***************************************************************************)

\* The metric keys and the values and increments passed by the callers.
MetricKeys == {"created", "scanned"}
MaxMetric == 2

\* JobRun.metrics as created: default=dict.
NoMetrics == [k \in {} |-> 0]

\* m[key] = value on a copy of the map
DictSet(m, key, value) ==
    [k \in (DOMAIN m) \cup {key} |-> IF k = key THEN value ELSE m[k]]

\* run.metrics of the JobRun object the context holds, after the calls so far.
RunMetrics == IF calls = <<>> THEN NoMetrics ELSE calls[Len(calls)].mem

\* set_metric: m = _metrics_copy(self.run); m[key] = value
SetMetric(m, key, value) == DictSet(m, key, value)

\* inc: current = int(m.get(key, 0) or 0); m[key] = current + by
\* (a faulty variant: the previous value is not read)
IncMetricMutant(m, key, by) == DictSet(m, key, by)
IncMetric(m, key, by) ==
    DictSet(m, key, (IF key \in DOMAIN m THEN m[key] ELSE 0) + by)

\* self.run.metrics = m; self.run.save(update_fields=["metrics"]): the map of
\* the object (mem) is written to the row (db).
CallSetMetric ==
    /\ Len(calls) < MaxCalls
    /\ \E key \in MetricKeys, value \in 0..MaxMetric :
         LET m == SetMetric(RunMetrics, key, value)
         IN  calls' = Append(calls, [op |-> "set_metric", key |-> key,
                                     arg |-> value, mem |-> m, db |-> m])
    /\ UNCHANGED <<fs, docs>>

CallInc ==
    /\ Len(calls) < MaxCalls
    /\ \E key \in MetricKeys, by \in 1..MaxMetric :
         LET m == IncMetric(RunMetrics, key, by)
         IN  calls' = Append(calls, [op |-> "inc", key |-> key,
                                     arg |-> by, mem |-> m, db |-> m])
    /\ UNCHANGED <<fs, docs>>

\* The value of key k after the first n calls, -1 when the key is absent: the
\* latest set_metric of k among them, plus the increments of k after it.
RECURSIVE ValueAfter(_, _)
ValueAfter(k, n) ==
    IF n = 0 THEN -1
    ELSE IF calls[n].key # k THEN ValueAfter(k, n - 1)
    ELSE IF calls[n].op = "set_metric" THEN calls[n].arg
    ELSE IF ValueAfter(k, n - 1) = -1 THEN calls[n].arg
    ELSE ValueAfter(k, n - 1) + calls[n].arg

\* C33: after each call of set_metric and inc the saved metrics hold, for
\* every key, the value that the calls made so far give it in order, and no
\* key that no call has named.
C33_MetricsApplyInOrder ==
    \A n \in CallIds :
        calls[n].op \in {"set_metric", "inc"} =>
            \A k \in MetricKeys :
                IF ValueAfter(k, n) = -1
                THEN k \notin DOMAIN calls[n].db
                ELSE k \in DOMAIN calls[n].db /\ calls[n].db[k] = ValueAfter(k, n)

\* A key that was set and then incremented, after a call on the other key.
C33_Witness ==
    /\ Len(calls) = 3
    /\ calls[1].op = "set_metric"
    /\ calls[2].key # calls[1].key
    /\ calls[3].op = "inc"
    /\ calls[3].key = calls[1].key
    /\ calls[1].arg > 0

(***************************************************************************)
(* SPECIFICATIONS                                                          *)
(***************************************************************************)

vars == <<jobVars, intakeVars, stageVars, calls>>

\* What the steps of one part leave alone.
JobOnly == UNCHANGED <<intakeVars, stageVars, calls>>
IntakeOnly == UNCHANGED <<jobVars, stageVars, snap, mbox, calls>>
ScanOnly == UNCHANGED <<jobVars, stageVars, mbox, calls>>
StageOnly == UNCHANGED <<jobVars, fs, ad, nRuns, snap, mbox, calls>>
StoreOnly == UNCHANGED <<jobVars, stageVars, ad, nRuns, snap, mbox>>

\* Invocations of the job coordinator; no adapter and no stage runs.
SpecJobInit == JobInit /\ IntakeQuiet /\ StageQuiet /\ StoreQuiet

SpecJobNext ==
    \E p \in Procs :
        \/ Start(p) /\ JobOnly
        \/ JcTryLock(p) /\ JobOnly
        \/ JcSkipCreate(p) /\ JobOnly
        \/ JcSkipBody(p) /\ JobOnly
        \/ JcSetupLog(p) /\ JobOnly
        \/ JcCreateRun(p) /\ JobOnly
        \/ JcBody(p) /\ JobOnly
        \/ JcExcept(p) /\ JobOnly
        \/ JcElse(p) /\ JobOnly
        \/ JcFinally(p) /\ JobOnly
        \/ SessionExpire(p) /\ JobOnly
        \/ GmCheckLock(p) /\ JobOnly
        \/ GmWriteLock(p) /\ JobOnly
        \/ GmSkipCreate(p) /\ JobOnly
        \/ GmCreateRun(p) /\ JobOnly
        \/ GmBody(p) /\ JobOnly
        \/ GmFinally(p) /\ JobOnly

SpecJob == SpecJobInit /\ [][SpecJobNext]_vars

\* Concurrent intake adapters.
SpecIntakeInit == JobInit /\ IntakeInit /\ StageQuiet /\ StoreQuiet

SpecIntakeNext ==
    \E p \in Procs :
        \/ ScanStart(p) /\ IntakeOnly
        \/ ScanHash(p) /\ IntakeOnly
        \/ ScanCheck(p) /\ IntakeOnly
        \/ IngestInsert(p) /\ IntakeOnly
        \/ IngestFinalize(p) /\ IntakeOnly
        \/ CollectMove(p) /\ IntakeOnly
        \/ CollectInsert(p) /\ IntakeOnly
        \/ MailStart(p) /\ IntakeOnly
        \/ MailCheck(p) /\ IntakeOnly
        \/ MailWrite(p) /\ IntakeOnly
        \/ MailInsert(p) /\ IntakeOnly
        \/ AdminSave(p) /\ IntakeOnly
        \/ AdminFinalize(p) /\ IntakeOnly

SpecIntake == SpecIntakeInit /\ [][SpecIntakeNext]_vars

\* One operator runs one directory scanner, then runs it again.
SpecScanInit == JobInit /\ ScanInit /\ StageQuiet /\ StoreQuiet

SpecScanNext ==
    \/ ScanAgain /\ ScanOnly
    \/ ScanHash(1) /\ ScanOnly /\ UNCHANGED snap
    \/ ScanCheck(1) /\ ScanOnly /\ UNCHANGED snap
    \/ IngestInsert(1) /\ ScanOnly /\ UNCHANGED snap
    \/ IngestFinalize(1) /\ ScanOnly /\ UNCHANGED snap
    \/ CollectMove(1) /\ ScanOnly /\ UNCHANGED snap
    \/ CollectInsert(1) /\ ScanOnly /\ UNCHANGED snap

SpecScan == SpecScanInit /\ [][SpecScanNext]_vars

\* One directory scanner that may crash, then is run again.
SpecCrashInit == JobInit /\ ScanInit /\ StageQuiet /\ StoreQuiet

SpecCrashNext ==
    \/ SpecScanNext
    \/ Crash(1) /\ ScanOnly /\ UNCHANGED snap

SpecCrash == SpecCrashInit /\ [][SpecCrashNext]_vars

\* One directory scanner run repeatedly while new files arrive.
SpecArriveInit == JobInit /\ ScanInit /\ StageQuiet /\ StoreQuiet

SpecArriveNext ==
    \/ SpecScanNext
    \/ Drop /\ ScanOnly /\ UNCHANGED snap

SpecArrive == SpecArriveInit /\ [][SpecArriveNext]_vars

\* Concurrent stage runs and admin actions over a registry of collected rows.
SpecStageInit == JobInit /\ StageInit /\ StoreQuiet

SpecStageNext ==
    \/ \E p \in Procs :
        \/ OcrStart(p) /\ StageOnly
        \/ OcrRead(p) /\ StageOnly
        \/ OcrLines(p) /\ StageOnly
        \/ OcrSave(p) /\ StageOnly
        \/ Vectorize(p) /\ StageOnly
        \/ BrandStart(p) /\ StageOnly
        \/ BrandStep(p) /\ StageOnly
        \/ BrandCommit(p) /\ StageOnly
    \/ MarkBrand /\ StageOnly
    \/ ResetBrand /\ StageOnly

SpecStage == SpecStageInit /\ [][SpecStageNext]_vars

\* Direct calls of the storage functions.
SpecStoreInit == JobInit /\ StoreInit /\ StageQuiet

SpecStoreNext ==
    \/ CallMove /\ StoreOnly
    \/ CallFinalize /\ StoreOnly

SpecStore == SpecStoreInit /\ [][SpecStoreNext]_vars

\* Direct calls of the path functions.
SpecPathInit == JobInit /\ IntakeQuiet /\ StageQuiet /\ StoreQuiet

SpecPathNext ==
    \/ CallResolve /\ StoreOnly

SpecPath == SpecPathInit /\ [][SpecPathNext]_vars

\* Runs of the mailbox collector, one after the other.
SpecMailInit == JobInit /\ MailInit /\ StageQuiet /\ StoreQuiet

SpecMailNext ==
    \/ MailStart(1) /\ IntakeOnly
    \/ MailCheck(1) /\ IntakeOnly
    \/ MailWrite(1) /\ IntakeOnly
    \/ MailInsert(1) /\ IntakeOnly

SpecMail == SpecMailInit /\ [][SpecMailNext]_vars

\* Runs of the text extraction that may die at any step.
SpecOcrInit == JobInit /\ StageInit /\ StoreQuiet

SpecOcrNext ==
    \E p \in Procs :
        \/ OcrStart(p) /\ StageOnly
        \/ OcrRead(p) /\ StageOnly
        \/ OcrLines(p) /\ StageOnly
        \/ OcrSave(p) /\ StageOnly
        \/ OcrCrash(p) /\ StageOnly

SpecOcr == SpecOcrInit /\ [][SpecOcrNext]_vars

\* One call of the brand scoring.
SpecScoreInit == JobInit /\ IntakeQuiet /\ StageQuiet /\ StoreQuiet

SpecScoreNext ==
    \/ CallBestBrand /\ StoreOnly

SpecScore == SpecScoreInit /\ [][SpecScoreNext]_vars

\* Calls of set_metric and inc on the context of one run.
SpecMetricInit == JobInit /\ IntakeQuiet /\ StageQuiet /\ StoreQuiet

SpecMetricNext ==
    \/ CallSetMetric /\ StoreOnly
    \/ CallInc /\ StoreOnly

SpecMetric == SpecMetricInit /\ [][SpecMetricNext]_vars

\* One selection of the winning alias.
SpecSelectInit == JobInit /\ IntakeQuiet /\ StageQuiet /\ StoreQuiet

SpecSelectNext ==
    \/ CallSelectAlias /\ StoreOnly

SpecSelect == SpecSelectInit /\ [][SpecSelectNext]_vars

====
